---- MODULE Spec2Model ----
(***************************************************************************)
(* Monthly roster generation (mino647/shiftapi).                           *)
(*                                                                         *)
(* A request carries a staff list, the global rule, the hope entries and   *)
(* an optional active-constraint list.  The driver (generate_shift)        *)
(* assembles a CP-SAT model from the encoder methods of the active list,   *)
(* pins the hope entries and solves, in the caller's thread (turbo) or in  *)
(* a child process polled by the parent (balanced).  The HTTP endpoints of *)
(* main.py wrap the driver: /generate-shift runs the pre-analyzer first,   *)
(* /debug-generate-shift passes the request's active-constraint list.      *)
(*                                                                         *)
(* Shift codes are written in ASCII:                                       *)
(*   "early" = ▲   "day" = 日   "late" = ▼   "nin" = ／   "nout" = ×        *)
(*   "rest" = 公   "leave" = 休   "star" = ☆   "under" = _                  *)
(* Days are 0-based inside the solver model (shifts[(staff, d, code)]) and *)
(* 1-based in entries (ShiftEntry.day), as in the source.                  *)
(***************************************************************************)
EXTENDS Integers, Sequences, FiniteSets, TLC

-----------------------------------------------------------------------------
(* Bounds of the model *)

\* calendar.monthrange(year, month)[1]; 28..31 in the program
DaysInMonth == 4
\* datetime(year, month, 1).weekday() (0 = Monday .. 6 = Sunday)
FirstWeekday == 4
\* incumbents a solve may stream before it ends
MaxSolutions == 2

\* entries of a result tuple the pipe of a multiprocessing.Queue holds before
\* a write blocks: the roster of one or two staff members fits, that of three
\* does not
PipeCapacity == 2 * DaysInMonth

Days == 0 .. (DaysInMonth - 1)

\* Python's None in an Optional[int] field (holiday_override)
None == -1

-----------------------------------------------------------------------------
(* Vocabulary *)

SHIFT_TYPES ==
    {"early", "day", "late", "nin", "nout", "rest", "leave", "star", "under"}

\* label -> code, for the four labels of StaffData.shift_counts
\* ("hayaban" = 早番, "nikkin" = 日勤, "osoban" = 遅番, "yakin" = 夜勤)
SHIFT_TYPE_MAPPING(label) ==
    CASE label = "hayaban" -> "early"
      [] label = "nikkin" -> "day"
      [] label = "osoban" -> "late"
      [] label = "yakin" -> "nin"
      [] OTHER -> label

\* the keys convert_staffdata gives shift_counts: 早番, 日勤, 遅番, 夜勤
\* constraint.count as a number of days: the table of mapping.py, 1 for a
\* count it does not hold
KANJI_TO_NUMBER(count) ==
    CASE count = "tankyu" -> 1
      [] count = "nirenkyu" -> 2
      [] count = "sanrenkyu" -> 3
      [] count = "ichi" -> 1
      [] count = "ni" -> 2
      [] count = "san" -> 3
      [] OTHER -> 1

ShiftLabels == {"hayaban", "nikkin", "osoban", "yakin"}

DEFAULT_CONSTRAINTS ==
    { "add_one_shift_per_day", "add_required_staff",
      "add_monthly_holiday_limit", "add_consecutive_work_limit",
      "add_night_pattern", "add_work_count_limit", "add_shift_pattern",
      "add_work_pattern", "add_shift_type", "add_star_shift_constraint",
      "add_under_shift_constraint", "add_underscore_penalty_to_objective",
      "add_pairing_constraint", "add_separate_constraint",
      "add_weekday_constraint", "add_holiday_pattern_constraint",
      "add_global_holiday_pattern_constraint", "add_local_consecutive_work",
      "add_local_consecutive_dayshift_work", "add_global_consecutive_work",
      "add_global_consecutive_dayshift_work", "add_global_consecutive_shift",
      "add_local_shift_pattern_constraint",
      "add_global_shift_pattern_constraint", "add_shift_balance_constraints",
      "add_pair_overlap_constraints", "add_global_standard_reliability",
      "add_global_custom_reliability", "add_numbered_shift_preference",
      "add_custom_preset_constraint", "add_local_holiday_guarantee_constraint",
      "add_global_holiday_guarantee_constraint",
      "add_local_shift_interval_constraint",
      "add_specific_day_shift_constraint" }

-----------------------------------------------------------------------------
(* Calendar *)

\* datetime(year, month, day+1).weekday() for the 0-based day index
weekday(day) == (FirstWeekday + day) % 7

is_sunday(day) == weekday(day) = 6

sunday_count == Cardinality({d \in Days : is_sunday(d)})

weekday_count == DaysInMonth - sunday_count

-----------------------------------------------------------------------------
(* The CP-SAT model.  An assignment x gives, for the staff member at        *)
(* position i of staff_list and the day index d, the set x[i][d] of codes   *)
(* whose boolean shifts[(staff, d, code)] is 1.  Each encoder below is the  *)
(* conjunction of the clauses the method of that name adds to the model.    *)

NStaff(req) == Len(req.staff_data_list)

StaffIdx(req) == 1 .. NStaff(req)

staff_list(req) == [i \in StaffIdx(req) |-> req.staff_data_list[i].name]

\* sum(shifts[(staff, d, code)] for d in range(days_in_month))
CountOf(x, i, code) == Cardinality({d \in Days : code \in x[i][d]})

\* sum(shifts[(st, day, code)] for st in staff_list)
CountOnDay(x, req, day, code) ==
    Cardinality({i \in StaffIdx(req) : code \in x[i][day]})

\* variant of OneShiftOf: the leave code left out of the sum
OneShiftButLeave(v) == Cardinality(v \ {"leave"}) = 1

\* sum(shifts[(staff, day, st)] for st in SHIFT_TYPES) == 1, for the set v of
\* codes set on one cell
OneShiftOf(v) == Cardinality(v) = 1

add_one_shift_per_day(x, req) ==
    \A i \in StaffIdx(req) : \A day \in Days : OneShiftOf(x[i][day])

\* required day-shift head count; val2 is twice the configured value, so an
\* odd val2 is a half-integer (abs(val % 1 - 0.5) < 0.01)
DayCountOk(n, val2) ==
    IF val2 % 2 = 1
    THEN n >= val2 \div 2 /\ n <= (val2 + 1) \div 2
    ELSE n = val2 \div 2

add_required_staff(x, req) ==
    \A day \in Days :
        /\ CountOnDay(x, req, day, "early") = req.rule_data.early_staff
        /\ CountOnDay(x, req, day, "late") = req.rule_data.late_staff
        /\ CountOnDay(x, req, day, "nin") = req.rule_data.night_staff
        /\ CountOnDay(x, req, day, "nout") = req.rule_data.night_staff
        /\ IF weekday(day) = 6
           THEN DayCountOk(CountOnDay(x, req, day, "day"),
                           req.rule_data.sunday_staff2)
           ELSE DayCountOk(CountOnDay(x, req, day, "day"),
                           req.rule_data.weekday_staff2)

\* variant of HolidayLimitOf: "holiday_override or holiday_count", which
\* takes an override of 0 for no override
HolidayLimitOr(x, req, i) ==
    LET stf == req.staff_data_list[i] IN
    IF stf.holiday_override = None \/ stf.holiday_override = 0
    THEN CountOf(x, i, "rest") = req.rule_data.holiday_count
    ELSE CountOf(x, i, "rest") = stf.holiday_override

\* the clause of add_monthly_holiday_limit for the staff member at i
HolidayLimitOf(x, req, i) ==
    LET stf == req.staff_data_list[i] IN
    IF stf.holiday_override = None
    THEN CountOf(x, i, "rest") = req.rule_data.holiday_count
    ELSE CountOf(x, i, "rest") = stf.holiday_override

add_monthly_holiday_limit(x, req) ==
    \A i \in StaffIdx(req) : HolidayLimitOf(x, req, i)

\* sum(work_days_exprs) of the window that starts at start_day
WindowWork(x, i, start_day, max_limit) ==
    LET n == IF max_limit + 1 < DaysInMonth - start_day
             THEN max_limit + 1 ELSE DaysInMonth - start_day
        win == start_day .. (start_day + n - 1)
    IN  Cardinality({p \in win \X (SHIFT_TYPES \ {"rest"}) :
                        p[2] \in x[i][p[1]]})
        + (IF (DaysInMonth - 1) \in win /\ "nin" \in x[i][DaysInMonth - 1]
           THEN 1 ELSE 0)

\* variant of WorkLimitOf: every window may hold one more working day
WorkLimitLoose(x, req, i) ==
    LET max_limit == req.rule_data.consecutive_work_limit IN
    \A start_day \in 0 .. (DaysInMonth - max_limit) :
        WindowWork(x, i, start_day, max_limit) <= max_limit + 1

\* the clauses of add_consecutive_work_limit for the staff member at i
WorkLimitOf(x, req, i) ==
    LET max_limit == req.rule_data.consecutive_work_limit IN
    \A start_day \in 0 .. (DaysInMonth - max_limit) :
        WindowWork(x, i, start_day, max_limit) <= max_limit

add_consecutive_work_limit(x, req) ==
    \A i \in StaffIdx(req) : WorkLimitOf(x, req, i)

\* variant of NightPatternOf: without the rest two days after a night-in
NightPatternNoRest(x, req, i) ==
    /\ req.staff_data_list[i].shift_counts["yakin"].max = 0
          => "nout" \notin x[i][0]
    /\ \A d \in 0 .. (DaysInMonth - 3) :
          /\ "nin" \in x[i][d] => "nout" \in x[i][d + 1]
          /\ "nout" \in x[i][d + 1] => "nin" \in x[i][d]
    /\ DaysInMonth > 1 =>
          ("nout" \in x[i][0] => "rest" \in x[i][1])
    /\ DaysInMonth >= 2 =>
          ("nin" \in x[i][DaysInMonth - 2]
               => "nout" \in x[i][DaysInMonth - 1])

\* variant of NightPatternOf: without the night-in before a night-out
NightPatternNoBack(x, req, i) ==
    /\ req.staff_data_list[i].shift_counts["yakin"].max = 0
          => "nout" \notin x[i][0]
    /\ \A d \in 0 .. (DaysInMonth - 3) :
          /\ "nin" \in x[i][d] => "nout" \in x[i][d + 1]
          /\ "nin" \in x[i][d] => "rest" \in x[i][d + 2]
    /\ DaysInMonth > 1 =>
          ("nout" \in x[i][0] => "rest" \in x[i][1])
    /\ DaysInMonth >= 2 =>
          ("nin" \in x[i][DaysInMonth - 2]
               => "nout" \in x[i][DaysInMonth - 1])

\* the clauses of add_night_pattern for the staff member at i
NightPatternOf(x, req, i) ==
    /\ req.staff_data_list[i].shift_counts["yakin"].max = 0
          => "nout" \notin x[i][0]
    /\ \A d \in 0 .. (DaysInMonth - 3) :
          /\ "nin" \in x[i][d] => "nout" \in x[i][d + 1]
          /\ "nin" \in x[i][d] => "rest" \in x[i][d + 2]
          /\ "nout" \in x[i][d + 1] => "nin" \in x[i][d]
    /\ DaysInMonth > 1 =>
          ("nout" \in x[i][0] => "rest" \in x[i][1])
    /\ DaysInMonth >= 2 =>
          ("nin" \in x[i][DaysInMonth - 2]
               => "nout" \in x[i][DaysInMonth - 1])

add_night_pattern(x, req) ==
    \A i \in StaffIdx(req) : NightPatternOf(x, req, i)

\* the clauses of add_work_count_limit for the staff member at i
WorkCountOf(x, req, i) ==
    \A shift_type \in ShiftLabels :
        LET limits == req.staff_data_list[i].shift_counts[shift_type]
            normalized_type == SHIFT_TYPE_MAPPING(shift_type)
        IN  normalized_type \in SHIFT_TYPES =>
                /\ CountOf(x, i, normalized_type) >= limits.min
                /\ CountOf(x, i, normalized_type) <= limits.max

add_work_count_limit(x, req) ==
    \A i \in StaffIdx(req) : WorkCountOf(x, req, i)

\* a hope entry pins the star code on this cell
has_star(req, i, day) ==
    \E entry \in req.entries :
        /\ entry.staff_name = req.staff_data_list[i].name
        /\ entry.day - 1 = day
        /\ entry.shift_type = "star"

\* variant of StarShiftOf: the star code is forbidden only on the rows that
\* hold no star entry
StarShiftPerRow(req, i, day, v) ==
    IF has_star(req, i, day) THEN v = {"star"}
    ELSE (\E d \in Days : has_star(req, i, d)) \/ "star" \notin v

\* the clauses of add_star_shift_constraint on the cell (i, day)
StarShiftOf(req, i, day, v) ==
    IF has_star(req, i, day) THEN v = {"star"} ELSE "star" \notin v

add_star_shift_constraint(x, req) ==
    \A i \in StaffIdx(req) : \A day \in Days :
        StarShiftOf(req, i, day, x[i][day])

\* shifts[(staff, day, '_')] == 0
UnderShiftOf(v) == "under" \notin v

add_under_shift_constraint(x, req) ==
    \A i \in StaffIdx(req) : \A day \in Days : UnderShiftOf(x[i][day])

\* add_shift_interval_constraint: the clauses of a mandatory constraint of
\* category シフト間隔 on the row r of one staff member; constraint.count names
\* the shift, constraint.target the interval; a 選好 constraint adds terms to
\* the objective only
ShiftIntervalOf(r, constraint) ==
    LET shift_type == IF constraint.count \in ShiftLabels
                      THEN SHIFT_TYPE_MAPPING(constraint.count)
                      ELSE constraint.count
        interval_days == constraint.target
        interval_end(start_day) ==
            IF start_day + interval_days + 1 <= DaysInMonth
            THEN start_day + interval_days + 1 ELSE DaysInMonth
    IN  (shift_type \in SHIFT_TYPES /\ constraint.type = "mandatory") =>
        CASE constraint.sub_category = "dislike" ->
                 \A start_day \in Days :
                     \A check_day \in
                           (start_day + 1) .. (interval_end(start_day) - 1) :
                         shift_type \in r[start_day]
                             => shift_type \notin r[check_day]
          [] constraint.sub_category = "like" ->
                 (\E start_day \in Days :
                      interval_end(start_day) > start_day + 1) =>
                 \A current_day \in Days :
                     (/\ shift_type \in r[current_day]
                      /\ \E past_day \in 0 .. (current_day - 1) :
                            shift_type \in r[past_day])
                     => \E past_day \in Days :
                            /\ past_day < current_day
                            /\ past_day >= current_day - interval_days
                            /\ shift_type \in r[past_day]
          [] OTHER -> TRUE

\* add_local_shift_interval_constraint, for the staff member at i
LocalShiftIntervalOf(x, req, i) ==
    LET constraints == req.staff_data_list[i].constraints IN
    \A k \in DOMAIN constraints :
        constraints[k].category = "interval"
            => ShiftIntervalOf(x[i], constraints[k])

add_local_shift_interval_constraint(x, req) ==
    \A i \in StaffIdx(req) : LocalShiftIntervalOf(x, req, i)

\* add_global_shift_interval_constraint, for the staff member at i
GlobalShiftIntervalOf(x, req, i) ==
    LET constraints == req.rule_data.preference_constraints IN
    \A k \in DOMAIN constraints :
        (/\ constraints[k].category = "interval"
         /\ constraints[k].times = "all"
         /\ ~req.staff_data_list[i].is_global_rule)
            => ShiftIntervalOf(x[i], constraints[k])

add_global_shift_interval_constraint(x, req) ==
    \A i \in StaffIdx(req) : GlobalShiftIntervalOf(x, req, i)

\* AddBoolAnd(pattern_days): rests on day .. day + length - 1 of the row, no
\* rest on the day before and on the day after where the month has them
HolidayPatternAt(r, day, length) ==
    /\ \A offset \in 0 .. (length - 1) : "rest" \in r[day + offset]
    /\ day > 0 => "rest" \notin r[day - 1]
    /\ day + length < DaysInMonth => "rest" \notin r[day + length]

\* the row has rests on all of day .. day + length - 1
AllRest(r, day, length) ==
    \A offset \in 0 .. (length - 1) : "rest" \in r[day + offset]

\* variant of HolidayPatternOf: the method adds no clause
HolidayPatternNone(r, holiday_count, constraint) == TRUE

\* add_holiday_pattern_constraint for one (staff, constraint): the clauses of
\* a 必須 constraint of category 連続休暇 on the row r; a 選好 constraint adds
\* terms to the objective only
HolidayPatternOf(r, holiday_count, constraint) ==
    LET count_value == constraint.count
        base_days == KANJI_TO_NUMBER(count_value)
        starts(length) == 0 .. (DaysInMonth - length)
        max_patterns == holiday_count \div base_days
    IN  constraint.type = "mandatory" =>
        IF constraint.sub_category \in {"like", "recommend"}
        THEN CASE constraint.target = "exactly" ->
                      max_patterns > 0 =>
                          Cardinality({day \in starts(base_days) :
                              HolidayPatternAt(r, day, base_days)})
                              = max_patterns
               [] constraint.target = "at_most" ->
                      \A day \in starts(base_days + 1) :
                          ~AllRest(r, day, base_days + 1)
               [] constraint.target = "at_least" ->
                      \A length \in 1 .. (base_days - 1) :
                          \A day \in starts(length) :
                              ~HolidayPatternAt(r, day, length)
               [] OTHER -> TRUE
        ELSE CASE constraint.target = "at_least" ->
                      \A day \in starts(base_days) :
                          ~AllRest(r, day, base_days)
               [] constraint.target = "at_most" ->
                      \A target_days \in 1 .. base_days :
                          \A day \in starts(target_days) :
                              ~HolidayPatternAt(r, day, target_days)
               [] constraint.target = "exactly" /\ count_value = "tankyu" ->
                      \A day \in 1 .. (DaysInMonth - 2) :
                          ~(/\ "rest" \notin r[day - 1]
                            /\ "rest" \in r[day]
                            /\ "rest" \notin r[day + 1])
               [] OTHER -> TRUE

\* holiday_count = rule_data.holiday_count, staff.holiday_override if it is
\* not None
PatternHolidayCount(req, i) ==
    IF req.staff_data_list[i].holiday_override # None
    THEN req.staff_data_list[i].holiday_override
    ELSE req.rule_data.holiday_count

\* add_holiday_pattern_constraint(), for the staff member at i
LocalHolidayPatternOf(x, req, i) ==
    LET constraints == req.staff_data_list[i].constraints IN
    \A k \in DOMAIN constraints :
        constraints[k].category = "holiday"
            => HolidayPatternOf(x[i], PatternHolidayCount(req, i),
                                constraints[k])

add_holiday_pattern_constraint(x, req) ==
    \A i \in StaffIdx(req) : LocalHolidayPatternOf(x, req, i)

\* add_global_holiday_pattern_constraint, for the staff member at i: 推奨
\* becomes 愛好, anything else 嫌悪
GlobalHolidayPatternOf(x, req, i) ==
    LET constraints == req.rule_data.preference_constraints IN
    \A k \in DOMAIN constraints :
        (/\ constraints[k].category = "holiday"
         /\ constraints[k].times = "all"
         /\ ~req.staff_data_list[i].is_global_rule)
            => HolidayPatternOf(x[i], PatternHolidayCount(req, i),
                   [constraints[k] EXCEPT !.sub_category =
                       IF @ = "recommend" THEN "like" ELSE "dislike"])

add_global_holiday_pattern_constraint(x, req) ==
    \A i \in StaffIdx(req) : GlobalHolidayPatternOf(x, req, i)

\* calculate_holiday_guarantee: fixed_days, the 0-based days on which a hope
\* entry gives the staff member a rest
fixed_days(req, i) ==
    {ent.day - 1 : ent \in {en \in req.entries :
                               /\ en.staff_name = req.staff_data_list[i].name
                               /\ en.shift_type = "rest"}}

\* fixed_holiday_count: the maximal sequences of fixed days of the month
\* that have n_days days or more
fixed_holiday_count(req, i, n_days) ==
    LET fixed == fixed_days(req, i) IN
    Cardinality({q \in Days \X Days :
        /\ q[2] - q[1] + 1 >= n_days
        /\ \A d \in q[1] .. q[2] : d \in fixed
        /\ (q[1] - 1) \notin fixed
        /\ (q[2] + 1) \notin fixed \/ q[2] = DaysInMonth - 1})

\* count_var: fixed_holiday_count plus the start days, outside the fixed
\* sequences, of a run of exactly n_days rests
calculate_holiday_guarantee(r, req, i, n_days) ==
    fixed_holiday_count(req, i, n_days)
        + Cardinality({day \in 0 .. (DaysInMonth - n_days) :
              /\ ~(\A d \in day .. (day + n_days - 1) : d \in fixed_days(req, i))
              /\ HolidayPatternAt(r, day, n_days)})

\* add_local_holiday_guarantee_constraint, for the staff member at i:
\* constraint.sub_category names the length, constraint.target the count
LocalHolidayGuaranteeOf(x, req, i) ==
    LET constraints == req.staff_data_list[i].constraints IN
    \A k \in DOMAIN constraints :
        (/\ constraints[k].category = "guarantee"
         /\ constraints[k].sub_category \in {"tankyu", "nirenkyu", "sanrenkyu"}
         /\ constraints[k].type = "mandatory")
            => calculate_holiday_guarantee(x[i], req, i,
                   KANJI_TO_NUMBER(constraints[k].sub_category))
                   >= constraints[k].target

add_local_holiday_guarantee_constraint(x, req) ==
    \A i \in StaffIdx(req) : LocalHolidayGuaranteeOf(x, req, i)

\* the (Saturday, Sunday) pairs of the month, named by the Saturday's index
weekend_pairs ==
    {sat_idx \in Days : /\ weekday(sat_idx) = 5
                        /\ sat_idx + 1 < DaysInMonth
                        /\ weekday(sat_idx + 1) = 6}

\* ["第一", "第二", "第三", "第四", "第五"].index(count)
NthOf(count) ==
    CASE count = "first" -> 0
      [] count = "second" -> 1
      [] count = "third" -> 2
      [] count = "fourth" -> 3
      [] count = "fifth" -> 4

\* the days of the ordered set named by count: all of them for 全て ("all"),
\* else the nth one if there is one
TargetsOf(days, count) ==
    IF count = "all" THEN days
    ELSE {day \in days : Cardinality({d \in days : d < day}) = NthOf(count)}

\* shifts[(name, day, "▲")] + shifts[(name, day, "日")] + shifts[(name, day, "▼")]
WorkingSum(r, day) == Cardinality(r[day] \cap {"early", "day", "late"})

\* shifts[(name, day, shift_type)]
ShiftVar(r, day, shift_type) == IF shift_type \in r[day] THEN 1 ELSE 0

\* add_weekday_constraint, the clauses of one 曜日希望 ("weekday") constraint
\* on the row r: target "satsun" (土／日) or a weekday number, times "work"
\* (出勤) or a shift label or code.  A 選好 constraint adds objective terms only.
WeekdayWishOf(r, constraint) ==
    LET is_working_shift == constraint.times = "work"
        shift_type == SHIFT_TYPE_MAPPING(constraint.times)
        is_aversion == constraint.sub_category = "dislike"
    IN  IF ~is_working_shift /\ shift_type \notin SHIFT_TYPES THEN TRUE
        ELSE IF constraint.type # "mandatory" THEN TRUE
        ELSE IF constraint.target = "satsun"
        THEN \A sat_idx \in TargetsOf(weekend_pairs, constraint.count) :
                 LET sun_idx == sat_idx + 1 IN
                 IF is_working_shift
                 THEN IF is_aversion
                      THEN WorkingSum(r, sat_idx) + WorkingSum(r, sun_idx) <= 5
                      ELSE WorkingSum(r, sat_idx) + WorkingSum(r, sun_idx) >= 1
                 ELSE IF is_aversion
                      THEN ShiftVar(r, sat_idx, shift_type)
                               + ShiftVar(r, sun_idx, shift_type) <= 1
                      ELSE ShiftVar(r, sat_idx, shift_type)
                               + ShiftVar(r, sun_idx, shift_type) >= 1
        ELSE \A day \in TargetsOf({d \in Days : weekday(d) = constraint.target},
                                  constraint.count) :
                 IF is_working_shift
                 THEN IF is_aversion THEN WorkingSum(r, day) = 0
                      ELSE WorkingSum(r, day) >= 1
                 ELSE IF is_aversion THEN ShiftVar(r, day, shift_type) = 0
                      ELSE ShiftVar(r, day, shift_type) = 1

WeekdayOf(x, req, i) ==
    LET constraints == req.staff_data_list[i].constraints IN
    \A k \in DOMAIN constraints :
        constraints[k].category = "weekday"
            => WeekdayWishOf(x[i], constraints[k])

add_weekday_constraint(x, req) ==
    \A i \in StaffIdx(req) : WeekdayOf(x, req, i)

\* RESET_SHIFTS = ['▼', '日', '▲', '☆', '_']
RESET_SHIFTS == {"late", "day", "early", "star", "under"}

\* night_counts[day] of add_global_consecutive_shift under a 必須 constraint:
\* 1 or 0 on the first day as it is × or not; from the second day on 0 on a
\* reset code, the value of the day before plus one on ／, else the value of
\* the day before
RECURSIVE night_counts(_, _)
night_counts(r, day) ==
    IF day = 0 THEN (IF "nout" \in r[0] THEN 1 ELSE 0)
    ELSE IF r[day] \cap RESET_SHIFTS # {} THEN 0
    ELSE IF "nin" \in r[day] THEN night_counts(r, day - 1) + 1
    ELSE night_counts(r, day - 1)

\* the night branch for one staff member: every night_counts[day] is an
\* IntVar(0, consecutive_count - 1); 以上 adds night_counts[day] < count, 丁度
\* adds night_counts[day-1] != count - 1 (is_exact_at_reset is fixed to 0), for
\* the days from the second on.  A 選好 constraint leaves the counters free but
\* for the first day and the reset days.
NightRunOf(r, constraint, consecutive_count) ==
    IF constraint.type = "mandatory"
    THEN /\ \A day \in Days :
                night_counts(r, day) \in 0 .. (consecutive_count - 1)
         /\ \A day \in 1 .. (DaysInMonth - 1) :
                IF constraint.target = "at_least"
                THEN night_counts(r, day) < consecutive_count
                ELSE night_counts(r, day - 1) # consecutive_count - 1
    ELSE /\ consecutive_count >= 1
         /\ "nout" \in r[0] => consecutive_count >= 2

\* add_global_consecutive_shift, the clauses of one 連続シフト ("run")
\* constraint on the row r: count names the shift, final the length
ConsecutiveShiftOf(r, constraint) ==
    LET shift_type == SHIFT_TYPE_MAPPING(constraint.count)
        consecutive_count == KANJI_TO_NUMBER(constraint.final)
    IN  IF constraint.count \notin ShiftLabels THEN TRUE
        ELSE IF constraint.count = "yakin"
        THEN NightRunOf(r, constraint, consecutive_count)
        ELSE constraint.type = "mandatory" =>
                 \A day \in 0 .. (DaysInMonth - consecutive_count) :
                     \E k \in 0 .. (consecutive_count - 1) :
                         shift_type \notin r[day + k]

GlobalConsecutiveShiftOf(x, req, i) ==
    LET constraints == req.rule_data.preference_constraints IN
    \A k \in DOMAIN constraints :
        (/\ constraints[k].category = "run"
         /\ ~req.staff_data_list[i].is_global_rule)
            => ConsecutiveShiftOf(x[i], constraints[k])

add_global_consecutive_shift(x, req) ==
    \A i \in StaffIdx(req) : GlobalConsecutiveShiftOf(x, req, i)

\* KANJI_TO_NUMBER.get(str(constraint.final), 0)
PairTargetCount(final) ==
    IF final \in {"ichi", "ni", "san"} THEN KANJI_TO_NUMBER(final) ELSE 0

\* the positions of the staff members with is_global_rule False
target_staff(req) ==
    {i \in StaffIdx(req) : ~req.staff_data_list[i].is_global_rule}

\* add_pair_overlap_constraints, the clauses of one ペア重複 ("pair_overlap")
\* constraint: count_var is the number of days on which both members of a
\* pair carry the shift; 必須 以上 adds count_var < target_count, 必須 丁度 adds
\* count_var != target_count
PairOverlapOf(x, req, constraint) ==
    LET shift_type == SHIFT_TYPE_MAPPING(constraint.count)
        target_count == PairTargetCount(constraint.final)
        count_var(staff1, staff2) ==
            Cardinality({day \in Days : /\ shift_type \in x[staff1][day]
                                        /\ shift_type \in x[staff2][day]})
    IN  constraint.type = "mandatory" =>
            \A staff1 \in target_staff(req) : \A staff2 \in target_staff(req) :
                staff1 < staff2 =>
                    IF constraint.target = "at_least"
                    THEN count_var(staff1, staff2) < target_count
                    ELSE count_var(staff1, staff2) # target_count

add_pair_overlap_constraints(x, req) ==
    LET constraints == req.rule_data.preference_constraints IN
    Cardinality(target_staff(req)) >= 2 =>
        \A k \in DOMAIN constraints :
            constraints[k].category = "pair_overlap"
                => PairOverlapOf(x, req, constraints[k])

\* the key (ent.staff_name, ent.day-1, ent.shift_type) exists in shifts
EntryKeyOk(req, ent) ==
    /\ \E i \in StaffIdx(req) : req.staff_data_list[i].name = ent.staff_name
    /\ (ent.day - 1) \in Days
    /\ ent.shift_type \in SHIFT_TYPES

\* variant of CellPinned: the entry's 1-based day used as the day index
CellPinnedSameDay(req, i, day) ==
    {ent.shift_type : ent \in
        {e \in req.entries : /\ e.staff_name = req.staff_data_list[i].name
                             /\ e.day = day}}

\* codes the hope entries pin on the cell (i, day):
\* model.Add(shifts[(ent.staff_name, ent.day-1, ent.shift_type)] == 1)
CellPinned(req, i, day) ==
    {ent.shift_type : ent \in
        {e \in req.entries : /\ e.staff_name = req.staff_data_list[i].name
                             /\ e.day - 1 = day}}

HopeShift(x, req) ==
    \A i \in StaffIdx(req) : \A day \in Days :
        CellPinned(req, i, day) \subseteq x[i][day]

\* getattr(clib, constraint)(): the clauses the named method adds.  The
\* remaining methods of the list either do not exist on the library
\* (hasattr fails) or add clauses only for constraints declared on a staff
\* member or on the rule; a request without declared constraints gets none.
ConstraintHolds(constraint, x, req) ==
    CASE constraint = "add_one_shift_per_day" -> add_one_shift_per_day(x, req)
      [] constraint = "add_required_staff" -> add_required_staff(x, req)
      [] constraint = "add_monthly_holiday_limit" ->
             add_monthly_holiday_limit(x, req)
      [] constraint = "add_consecutive_work_limit" ->
             add_consecutive_work_limit(x, req)
      [] constraint = "add_night_pattern" -> add_night_pattern(x, req)
      [] constraint = "add_work_count_limit" -> add_work_count_limit(x, req)
      [] constraint = "add_star_shift_constraint" ->
             add_star_shift_constraint(x, req)
      [] constraint = "add_under_shift_constraint" ->
             add_under_shift_constraint(x, req)
      [] constraint = "add_weekday_constraint" ->
             add_weekday_constraint(x, req)
      [] constraint = "add_global_consecutive_shift" ->
             add_global_consecutive_shift(x, req)
      [] constraint = "add_pair_overlap_constraints" ->
             add_pair_overlap_constraints(x, req)
      [] constraint = "add_holiday_pattern_constraint" ->
             add_holiday_pattern_constraint(x, req)
      [] constraint = "add_global_holiday_pattern_constraint" ->
             add_global_holiday_pattern_constraint(x, req)
      [] constraint = "add_local_holiday_guarantee_constraint" ->
             add_local_holiday_guarantee_constraint(x, req)
      [] constraint = "add_local_shift_interval_constraint" ->
             add_local_shift_interval_constraint(x, req)
      [] constraint = "add_global_shift_interval_constraint" ->
             add_global_shift_interval_constraint(x, req)
      [] OTHER -> TRUE

\* x satisfies the assembled model: the clauses of every applied method and
\* the pinned hope entries
Feasible(x, req, constraints_to_apply) ==
    /\ \A constraint \in constraints_to_apply :
           ConstraintHolds(constraint, x, req)
    /\ HopeShift(x, req)

-----------------------------------------------------------------------------
(* The solver.  Solutions is the set of assignments that satisfy the        *)
(* assembled model.  It is computed row by row: the values a cell may take  *)
(* under the clauses on that cell alone, the rows of one staff member that  *)
(* satisfy the clauses on that member alone, then the combinations of rows  *)
(* that satisfy the whole model.                                            *)

\* codes a clause that reads other cells too forces to 0 on the cell
\* (i, day) whatever those cells hold: a required head count of 0, and the
\* night-out of day 1 for a member whose night maximum is 0
CellBanned(req, cons, i, day) ==
    LET rule == req.rule_data IN
    (IF /\ "add_night_pattern" \in cons
        /\ day = 0
        /\ req.staff_data_list[i].shift_counts["yakin"].max = 0
     THEN {"nout"} ELSE {})
    \cup (IF "add_required_staff" \in cons
          THEN (IF rule.early_staff = 0 THEN {"early"} ELSE {})
               \cup (IF rule.late_staff = 0 THEN {"late"} ELSE {})
               \cup (IF rule.night_staff = 0 THEN {"nin", "nout"} ELSE {})
               \cup (IF (IF weekday(day) = 6 THEN rule.sunday_staff2
                         ELSE rule.weekday_staff2) = 0
                     THEN {"day"} ELSE {})
          ELSE {})

\* the clauses on the cell (i, day) alone, for the set v of codes set on it
CellOk(req, cons, i, day, v) ==
    /\ "add_one_shift_per_day" \in cons => OneShiftOf(v)
    /\ "add_star_shift_constraint" \in cons => StarShiftOf(req, i, day, v)
    /\ "add_under_shift_constraint" \in cons => UnderShiftOf(v)
    /\ CellPinned(req, i, day) \subseteq v
    /\ v \cap CellBanned(req, cons, i, day) = {}

CellDomain(req, cons, i, day) ==
    {v \in SUBSET SHIFT_TYPES : CellOk(req, cons, i, day, v)}

\* the clauses on the staff member at i alone, for a row r of that member
RowOk(req, cons, i, r) ==
    LET x == [j \in {i} |-> r] IN
    /\ "add_monthly_holiday_limit" \in cons => HolidayLimitOf(x, req, i)
    /\ "add_consecutive_work_limit" \in cons => WorkLimitOf(x, req, i)
    /\ "add_night_pattern" \in cons => NightPatternOf(x, req, i)
    /\ "add_work_count_limit" \in cons => WorkCountOf(x, req, i)
    /\ "add_weekday_constraint" \in cons => WeekdayOf(x, req, i)
    /\ "add_global_consecutive_shift" \in cons
           => GlobalConsecutiveShiftOf(x, req, i)
    /\ "add_holiday_pattern_constraint" \in cons
           => LocalHolidayPatternOf(x, req, i)
    /\ "add_global_holiday_pattern_constraint" \in cons
           => GlobalHolidayPatternOf(x, req, i)
    /\ "add_local_holiday_guarantee_constraint" \in cons
           => LocalHolidayGuaranteeOf(x, req, i)
    /\ "add_local_shift_interval_constraint" \in cons
           => LocalShiftIntervalOf(x, req, i)
    /\ "add_global_shift_interval_constraint" \in cons
           => GlobalShiftIntervalOf(x, req, i)

RECURSIVE RowPrefixes(_, _, _, _)
RowPrefixes(req, cons, i, n) ==
    IF n = 0 THEN {<<>>}
    ELSE {Append(r, v) : r \in RowPrefixes(req, cons, i, n - 1),
                         v \in CellDomain(req, cons, i, n - 1)}

Rows(req, cons, i) ==
    {r \in {[d \in Days |-> q[d + 1]] :
                q \in RowPrefixes(req, cons, i, DaysInMonth)} :
        RowOk(req, cons, i, r)}

\* the first k rows do not already exceed a required head count
ColumnsOpen(req, cons, p, k) ==
    "add_required_staff" \in cons =>
        \A day \in Days :
            LET n(code) == Cardinality({i \in 1 .. k : code \in p[i][day]})
                rule == req.rule_data
            IN  /\ n("early") <= rule.early_staff
                /\ n("late") <= rule.late_staff
                /\ n("nin") <= rule.night_staff
                /\ n("nout") <= rule.night_staff
                /\ n("day") <= ((IF weekday(day) = 6 THEN rule.sunday_staff2
                                 ELSE rule.weekday_staff2) + 1) \div 2

RECURSIVE RosterPrefixes(_, _, _)
RosterPrefixes(req, cons, k) ==
    IF k = 0 THEN {<<>>}
    ELSE {p \in {Append(q, r) : q \in RosterPrefixes(req, cons, k - 1),
                                r \in Rows(req, cons, k)} :
            ColumnsOpen(req, cons, p, k)}

Solutions(req, cons) ==
    {x \in RosterPrefixes(req, cons, NStaff(req)) : Feasible(x, req, cons)}

-----------------------------------------------------------------------------
(* The pre-analyzer (PrefixManager.check_constraints).  Each check returns  *)
(* TRUE when it reports a violation, as in the source.                      *)

RECURSIVE SumTo(_, _)
\* sum(f[k] for k in 1..n)
SumTo(f, n) == IF n = 0 THEN 0 ELSE f[n] + SumTo(f, n - 1)

\* staff.holiday_override or self.rule_data.holiday_count
holiday_limit(req, i) ==
    LET ho == req.staff_data_list[i].holiday_override IN
    IF ho = None \/ ho = 0 THEN req.rule_data.holiday_count ELSE ho

check_empty_staff_list(req) == Len(req.staff_data_list) = 0

star_shift_count(req, i) ==
    Cardinality({entry \in req.entries :
                    /\ entry.staff_name = req.staff_data_list[i].name
                    /\ entry.shift_type = "star"})

working_days(req, i) ==
    DaysInMonth - holiday_limit(req, i) - star_shift_count(req, i)

\* the night label counts twice: one night takes two cells
total_min(req, i) ==
    LET sc == req.staff_data_list[i].shift_counts IN
    sc["hayaban"].min + sc["nikkin"].min + sc["osoban"].min
        + 2 * sc["yakin"].min

total_max(req, i) ==
    LET sc == req.staff_data_list[i].shift_counts IN
    sc["hayaban"].max + sc["nikkin"].max + sc["osoban"].max
        + 2 * sc["yakin"].max

check_shift_count_conflicts(req) ==
    \E i \in StaffIdx(req) :
        \/ \E shift_type \in ShiftLabels :
              LET limits == req.staff_data_list[i].shift_counts[shift_type]
              IN  limits.min > limits.max
        \/ total_min(req, i) > working_days(req, i)
        \/ total_max(req, i) < working_days(req, i)

calculate_total_shifts(req) ==
    LET free == [i \in StaffIdx(req) |->
                    LET ho == req.staff_data_list[i].holiday_override IN
                    DaysInMonth - (IF ho # None THEN ho
                                   ELSE req.rule_data.holiday_count)]
        star_count == Cardinality({entry \in req.entries :
                                      entry.shift_type = "star"})
    IN  SumTo(free, NStaff(req)) - star_count

\* the required cells of the month, with the day-shift head counts rounded
\* down (int(val - 0.5) for a half-integer, int(val) otherwise)
calculate_required_shifts(req) ==
    LET rule == req.rule_data
        base_staff == rule.early_staff + rule.late_staff
                          + (rule.night_staff * 2)
    IN  (base_staff + rule.weekday_staff2 \div 2) * weekday_count
            + (base_staff + rule.sunday_staff2 \div 2) * sunday_count

check_total_shifts(req) ==
    LET rule == req.rule_data
        total_shifts == calculate_total_shifts(req)
        base_required == calculate_required_shifts(req)
        has_range == rule.weekday_staff2 % 2 = 1 \/ rule.sunday_staff2 % 2 = 1
        max_required ==
            base_required
                + (IF rule.weekday_staff2 % 2 = 1 THEN weekday_count ELSE 0)
                + (IF rule.sunday_staff2 % 2 = 1 THEN sunday_count ELSE 0)
    IN  IF has_range
        THEN total_shifts < base_required \/ total_shifts > max_required
        ELSE total_shifts < base_required \/ total_shifts > base_required

required_shifts(req, shift_type) ==
    LET rule == req.rule_data IN
    CASE shift_type = "hayaban" -> rule.early_staff * DaysInMonth
      [] shift_type = "osoban" -> rule.late_staff * DaysInMonth
      [] shift_type = "yakin" -> rule.night_staff * DaysInMonth
      [] shift_type = "nikkin" ->
             (rule.weekday_staff2 \div 2) * weekday_count
                 + (rule.sunday_staff2 \div 2) * sunday_count

check_shift_type_requirements(req) ==
    \E shift_type \in ShiftLabels :
        LET mins == [i \in StaffIdx(req) |->
                        req.staff_data_list[i].shift_counts[shift_type].min]
            maxs == [i \in StaffIdx(req) |->
                        req.staff_data_list[i].shift_counts[shift_type].max]
        IN  \/ SumTo(maxs, NStaff(req)) < required_shifts(req, shift_type)
            \/ SumTo(mins, NStaff(req)) > required_shifts(req, shift_type)

\* the array SequencePrefix builds for one member: 0 blank, -1 rest, 1 work
work_days(req, i) ==
    [day \in 1 .. DaysInMonth |->
        LET es == {e \in req.entries :
                      /\ e.staff_name = req.staff_data_list[i].name
                      /\ e.day = day}
        IN  IF es = {} THEN 0
            ELSE IF (CHOOSE e \in es : TRUE).shift_type \in {"rest", "leave"}
                 THEN -1 ELSE 1]

check_consecutive_work_limit(req) ==
    \E i \in StaffIdx(req) :
        LET wd == work_days(req, i)
            work_limit == req.rule_data.consecutive_work_limit
            remaining_holidays ==
                holiday_limit(req, i)
                    - Cardinality({d \in 1 .. DaysInMonth : wd[d] = -1})
        IN  \E a \in 1 .. DaysInMonth : \E b \in a .. DaysInMonth :
                /\ \A d \in a .. b : wd[d] >= 0
                /\ a = 1 \/ wd[a - 1] = -1
                /\ b = DaysInMonth \/ wd[b + 1] = -1
                /\ \/ \E s \in a .. (b - work_limit) :
                          \A d \in s .. (s + work_limit) : wd[d] = 1
                   \/ /\ b - a + 1 > work_limit
                      /\ (b - a + 1) \div (work_limit + 1)
                             > remaining_holidays

\* hope entries of the (1-based) day that hold one of the codes
confirmed_shifts(req, day, codes) ==
    Cardinality({e \in req.entries : e.day = day /\ e.shift_type \in codes})

check_shift_constraints(req) ==
    \E day \in 1 .. DaysInMonth :
        LET rule == req.rule_data
            staff2 == IF weekday(day - 1) = 6 THEN rule.sunday_staff2
                      ELSE rule.weekday_staff2
            day_min == staff2 \div 2
            day_max == (staff2 + 1) \div 2
            early == confirmed_shifts(req, day, {"early"})
            days == confirmed_shifts(req, day, {"day"})
            late == confirmed_shifts(req, day, {"late"})
            nin == confirmed_shifts(req, day, {"nin"})
            nout == confirmed_shifts(req, day, {"nout"})
            confirmed_holidays == confirmed_shifts(req, day, {"rest", "leave"})
            total_needed ==
                (rule.early_staff - early)
                    + (IF days < day_min THEN day_min - days ELSE 0)
                    + (rule.late_staff - late)
                    + (rule.night_staff - nin) + (rule.night_staff - nout)
            remaining_slots ==
                NStaff(req)
                    - (early + days + late + nin + nout + confirmed_holidays)
        IN  \/ early > rule.early_staff
            \/ late > rule.late_staff
            \/ nin > rule.night_staff
            \/ nout > rule.night_staff
            \/ days > day_max
            \/ total_needed > remaining_slots

\* hope entries of the staff member at i that hold one of the codes
confirmed_of(req, i, codes) ==
    Cardinality({e \in req.entries :
                    /\ e.staff_name = req.staff_data_list[i].name
                    /\ e.shift_type \in codes})

\* the codes _check_staff_constraints counts under a label of shift_counts
LabelCodes(shift_type) ==
    CASE shift_type = "hayaban" -> {"early"}
      [] shift_type = "nikkin" -> {"day"}
      [] shift_type = "osoban" -> {"late"}
      [] shift_type = "yakin" -> {"nin"}

check_staff_constraints(req) ==
    \E i \in StaffIdx(req) :
        LET counts == req.staff_data_list[i].shift_counts
            rests == confirmed_of(req, i, {"rest", "leave"})
            total_confirmed ==
                confirmed_of(req, i,
                             {"early", "day", "late", "nin", "rest", "leave"})
            remaining_slots == DaysInMonth - total_confirmed
            available_slots ==
                remaining_slots - (holiday_limit(req, i) - rests)
        IN  \/ \E shift_type \in ShiftLabels :
                  confirmed_of(req, i, LabelCodes(shift_type))
                      > counts[shift_type].max
            \/ rests > holiday_limit(req, i)
            \/ rests + remaining_slots < holiday_limit(req, i)
            \/ \E shift_type \in ShiftLabels :
                  LET min_count == counts[shift_type].min
                      current_count ==
                          confirmed_of(req, i, LabelCodes(shift_type))
                      needed_slots ==
                          IF shift_type = "yakin"
                          THEN 2 * (min_count - current_count)
                          ELSE min_count - current_count
                  IN  min_count > 0 /\ available_slots < needed_slots

\* _check_weekday_constraints builds datetime(year, month, entry.day) for
\* every hope entry: ValueError for a day outside the month
weekday_constraints_raises(req) ==
    \E e \in req.entries : e.day \notin 1 .. DaysInMonth

\* entries_by_staff[staff][day] is set: the staff has a hope entry on the day
entry_on(req, name, day) ==
    \E e \in req.entries : e.staff_name = name /\ e.day = day

\* entries_by_staff[staff][day] == code
entry_is(req, name, day, code) ==
    \E e \in req.entries :
        e.staff_name = name /\ e.day = day /\ e.shift_type = code

check_night_shift_pattern(req) ==
    /\ req.entries # {}
    /\ \/ \E i \in StaffIdx(req) :
              /\ req.staff_data_list[i].shift_counts["yakin"].max = 0
              /\ confirmed_of(req, i, {"nout"}) > 0
       \/ \E e \in req.entries :
              LET staff == e.staff_name
                  day == e.day
              IN  \/ /\ day = 1 /\ e.shift_type = "nout"
                     /\ entry_on(req, staff, 2)
                     /\ ~entry_is(req, staff, 2, "rest")
                  \/ /\ e.shift_type = "nin"
                     /\ \/ /\ entry_on(req, staff, day + 1)
                           /\ ~entry_is(req, staff, day + 1, "nout")
                        \/ /\ entry_on(req, staff, day + 2)
                           /\ ~entry_is(req, staff, day + 2, "rest")
                  \/ /\ e.shift_type = "nout"
                     /\ entry_on(req, staff, day - 1)
                     /\ ~entry_is(req, staff, day - 1, "nin")

\* The checks that read the declared constraints of the staff and of the
\* rule are not modelled one by one.  A request here declares no constraint they read,
\* so they report nothing on a request without hope entries; on a request
\* with hope entries either outcome is allowed.  The value is TRUE when none
\* of them reports.
RemainingChecks(req) == IF req.entries = {} THEN {TRUE} ELSE BOOLEAN

\* the mandatory consecutive-holiday constraints a staff member declares
\* (category 連続休暇, type 必須), in the order of staff.constraints
holiday_constraints(req, i) ==
    SelectSeq(req.staff_data_list[i].constraints,
              LAMBDA c : c.category = "holiday" /\ c.type = "mandatory")

\* lengths of the maximal runs of rest entries of the staff member at i that
\* end before the last day, and of the run that ends on the last day
rest_on(req, i, day) ==
    entry_is(req, req.staff_data_list[i].name, day, "rest")

rest_runs(req, i, at_end) ==
    LET runs == {q \in (1 .. DaysInMonth) \X (1 .. DaysInMonth) :
                    /\ q[1] <= q[2]
                    /\ \A d \in q[1] .. q[2] : rest_on(req, i, d)
                    /\ q[1] = 1 \/ ~rest_on(req, i, q[1] - 1)
                    /\ IF at_end THEN q[2] = DaysInMonth
                       ELSE /\ q[2] < DaysInMonth
                            /\ ~rest_on(req, i, q[2] + 1)}
    IN  {q[2] - q[1] + 1 : q \in runs}

\* validate_consecutive_holiday_constraints, the part on staff.constraints
\* (the rule declares no preference_constraints of that category here)
validate_consecutive_holiday_constraints(req) ==
    \E i \in StaffIdx(req) :
        \E k \in DOMAIN holiday_constraints(req, i) :
            LET constraint == holiday_constraints(req, i)[k]
                base_days == KANJI_TO_NUMBER(constraint.count)
            IN  \/ /\ constraint.sub_category = "dislike"
                   /\ \/ /\ base_days = 1
                         /\ constraint.target \in {"at_least", "at_most"}
                      \/ \E n \in rest_runs(req, i, FALSE) :
                            \/ constraint.target = "at_least" /\ n >= base_days
                            \/ constraint.target = "exactly" /\ n = base_days
                            \/ constraint.target = "at_most" /\ n <= base_days
                      \/ \E n \in rest_runs(req, i, TRUE) :
                            \/ constraint.target = "at_least" /\ n >= base_days
                            \/ constraint.target = "exactly" /\ n = base_days
                \/ /\ constraint.sub_category = "like"
                   /\ base_days = 1
                   /\ constraint.target # "exactly"

MAX_HOLIDAY_CONSECUTIVE == 7

\* calculate_holiday_range: (min, max) of the run lengths the constraint
\* allows, << >> for None
calculate_holiday_range(sub_category, target, count) ==
    LET n == KANJI_TO_NUMBER(count) IN
    IF sub_category \in {"like", "recommend"}
    THEN CASE target = "at_least" -> << n, MAX_HOLIDAY_CONSECUTIVE >>
           [] target = "exactly" -> << n, n >>
           [] target = "at_most" -> << 1, n >>
           [] OTHER -> << >>
    ELSE IF sub_category \in {"dislike", "avoid"}
    THEN CASE target = "at_least" -> << 1, n - 1 >>
           [] target = "exactly" ->
                  << IF n = 1 THEN 2 ELSE 1, MAX_HOLIDAY_CONSECUTIVE >>
           [] target = "at_most" -> << n + 1, MAX_HOLIDAY_CONSECUTIVE >>
           [] OTHER -> << >>
    ELSE << >>

\* max(min1, min2) <= min(max1, max2)
has_overlap(range1, range2) ==
    (IF range1[1] >= range2[1] THEN range1[1] ELSE range2[1])
        <= (IF range1[2] <= range2[2] THEN range1[2] ELSE range2[2])

\* the two constraints of one staff member are in conflict
holiday_conflict(c1, c2) ==
    LET range1 == calculate_holiday_range(c1.sub_category, c1.target, c1.count)
        range2 == calculate_holiday_range(c2.sub_category, c2.target, c2.count)
    IN  /\ range1 # << >>
        /\ range2 # << >>
        /\ IF has_overlap(range1, range2)
           THEN /\ c1.target = "exactly" \/ c2.target = "exactly"
                /\ \/ /\ c1.sub_category \in {"dislike", "avoid"}
                      /\ c2.sub_category \in {"like", "recommend"}
                   \/ /\ c2.sub_category \in {"dislike", "avoid"}
                      /\ c1.sub_category \in {"like", "recommend"}
                /\ c1.count = c2.count
           ELSE TRUE

\* check_holiday_constraints_conflict: the errors it collects, one for every
\* pair of conflicting constraints of a staff member (the rule declares no
\* preference_constraints of that category here, so the global part collects
\* nothing)
holiday_conflict_errors(req) ==
    {t \in StaffIdx(req) \X (1 .. 4) \X (1 .. 4) :
        LET cs == holiday_constraints(req, t[1]) IN
        /\ t[2] < t[3]
        /\ t[3] <= Len(cs)
        /\ holiday_conflict(cs[t[2]], cs[t[3]])}

\* AlternativePrefix.check_shift_interval_min_max_consistency: a mandatory
\* dislike interval on a shift whose minimum count does not fit in the month.
\* PrefixManager creates the basic, pattern and sequence checkers only, so
\* this check is not one of PreChecks.
check_shift_interval_min_max_consistency(req) ==
    \E i \in StaffIdx(req) :
        LET staff == req.staff_data_list[i] IN
        \E k \in DOMAIN staff.constraints :
            LET constraint == staff.constraints[k]
                target_shift_name == constraint.count
                shift_type == IF target_shift_name \in ShiftLabels
                              THEN SHIFT_TYPE_MAPPING(target_shift_name)
                              ELSE target_shift_name
                min_count == IF target_shift_name \in ShiftLabels
                             THEN staff.shift_counts[target_shift_name].min
                             ELSE 0
            IN  /\ constraint.category = "interval"
                /\ constraint.type = "mandatory"
                /\ shift_type \in SHIFT_TYPES
                /\ constraint.sub_category = "dislike"
                /\ min_count > 0
                /\ 1 + (constraint.target + 1) * (min_count - 1) > DaysInMonth

\* what one check of the pre-analyzer did: "pass", "violation" (it returned
\* True) or "raise"; the checks whose write_notification calls were made, one
\* element a call, and the number of QMessageBox dialogs
CheckRun(name, outcome, notifications, dialogs) ==
    [name |-> name, outcome |-> outcome, notifications |-> notifications,
     dialogs |-> dialogs]

\* pair_count of _check_pair_overlap_constraints: the days of the month on
\* which the hope entries give both staff members the shift
pair_count(req, staff1, staff2, shift_type) ==
    Cardinality({day \in 1 .. DaysInMonth :
        /\ entry_is(req, req.staff_data_list[staff1].name, day, shift_type)
        /\ entry_is(req, req.staff_data_list[staff2].name, day, shift_type)})

\* staff.shift_counts.get(shift_type, {}).get('max', 0)
PairMaxOf(req, i, shift_type) ==
    IF shift_type \in ShiftLabels
    THEN req.staff_data_list[i].shift_counts[shift_type].max ELSE 0

\* the entries of the staff member, those with the shift when given
entries_of(req, i, shift_types) ==
    {e \in req.entries : /\ e.staff_name = req.staff_data_list[i].name
                         /\ e.shift_type \in shift_types}

\* _check_pair_overlap_constraints: TRUE when a 必須 ペア重複 constraint of
\* the rule is already violated by the hope entries of a pair
check_pair_overlap_constraints(req) ==
    LET constraints == req.rule_data.preference_constraints IN
    /\ Cardinality(target_staff(req)) >= 2
    /\ \E k \in DOMAIN constraints :
          /\ constraints[k].category = "pair_overlap"
          /\ constraints[k].type = "mandatory"
          /\ LET shift_type == SHIFT_TYPE_MAPPING(constraints[k].count)
                 target_count == PairTargetCount(constraints[k].final)
             IN  \E staff1 \in target_staff(req) :
                 \E staff2 \in target_staff(req) :
                     /\ staff1 < staff2
                     /\ IF constraints[k].target = "at_least"
                        THEN pair_count(req, staff1, staff2, shift_type)
                                 >= target_count
                        ELSE /\ pair_count(req, staff1, staff2, shift_type)
                                    = target_count
                             /\ \E i \in {staff1, staff2} :
                                   \/ Cardinality(entries_of(req, i,
                                                             {shift_type}))
                                          >= PairMaxOf(req, i, shift_type)
                                   \/ Cardinality(entries_of(req, i,
                                                             SHIFT_TYPES))
                                          = DaysInMonth

\* a check that calls write_notification once before it returns True
Notifying(name, found) ==
    CheckRun(name, IF found THEN "violation" ELSE "pass",
             IF found THEN << name >> ELSE << >>, 0)

\* a check that shows QMessageBox.critical and calls write_notification
\* before it returns True
DialogNotifying(name, found) ==
    CheckRun(name, IF found THEN "violation" ELSE "pass",
             IF found THEN << name >> ELSE << >>, IF found THEN 1 ELSE 0)

\* a check that collects its errors, then calls write_notification on each
\* and returns True
Collecting(name, errors) ==
    CheckRun(name, IF errors # {} THEN "violation" ELSE "pass",
             [k \in 1 .. Cardinality(errors) |-> name], 0)

\* a check that shows QMessageBox.critical before it returns True
DialogOnly(name, found) ==
    CheckRun(name, IF found THEN "violation" ELSE "pass", << >>,
             IF found THEN 1 ELSE 0)

\* the checks in the order PrefixManager.check_constraints runs them: those
\* of BasicPrefix, of PatternPrefix, of SequencePrefix
PreChecks(req, remaining) ==
    << Notifying("_check_empty_staff_list", check_empty_staff_list(req)),
       Notifying("_check_shift_count_conflicts",
                 check_shift_count_conflicts(req)),
       Notifying("check_total_shifts", check_total_shifts(req)),
       Notifying("_check_shift_type_requirements",
                 check_shift_type_requirements(req)),
       Notifying("_check_shift_constraints", check_shift_constraints(req)),
       Notifying("_check_staff_constraints", check_staff_constraints(req)),
       CheckRun("_check_weekday_constraints",
                IF weekday_constraints_raises(req) THEN "raise" ELSE "pass",
                << >>, 0),
       DialogOnly("_check_night_shift_pattern",
                  check_night_shift_pattern(req)),
       DialogNotifying("_check_pair_overlap_constraints",
                       check_pair_overlap_constraints(req)),
       Notifying("validate_consecutive_holiday_constraints",
                 validate_consecutive_holiday_constraints(req)),
       Notifying("_check_consecutive_work_limit",
                 check_consecutive_work_limit(req)),
       Collecting("check_holiday_constraints_conflict",
                  holiday_conflict_errors(req)),
       Notifying("remaining", ~remaining) >>

RECURSIVE NotesUpTo(_, _)
NotesUpTo(checks, k) ==
    IF k = 0 THEN << >>
    ELSE NotesUpTo(checks, k - 1) \o checks[k].notifications

\* a pre-analyzer that runs every check, whatever the earlier ones found
PreAnalysisRunAll(req, remaining) ==
    LET checks == PreChecks(req, remaining)
        stops == {k \in DOMAIN checks : checks[k].outcome # "pass"}
    IN  IF stops = {}
        THEN CheckRun("all", "pass", << >>, 0)
        ELSE CheckRun(checks[CHOOSE k \in stops : \A l \in stops : k <= l].name,
                      checks[CHOOSE k \in stops : \A l \in stops : k <= l].outcome,
                      NotesUpTo(checks, Len(checks)), 0)

\* the run of the pre-analyzer: it stops at the first check that does not
\* pass
PreAnalysis(req, remaining) ==
    LET checks == PreChecks(req, remaining)
        stops == {k \in DOMAIN checks : checks[k].outcome # "pass"}
    IN  IF stops = {}
        THEN CheckRun("all", "pass", << >>, 0)
        ELSE checks[CHOOSE k \in stops : \A l \in stops : k <= l]

\* PrefixManager.check_constraints: TRUE when every check passes
check_constraints(req, remaining) ==
    PreAnalysis(req, remaining).outcome = "pass"

-----------------------------------------------------------------------------
(* Inputs *)

\* Optional[List[str]]: None, or the list of method names
NoList == [is_none |-> TRUE, names |-> {}]

ListOf(names) == [is_none |-> FALSE, names |-> names]

Wide == [min |-> 0, max |-> DaysInMonth]

\* no early and no late shift, any number of day shifts and of nights
WideCounts ==
    [label \in ShiftLabels |->
        IF label \in {"hayaban", "osoban"} THEN [min |-> 0, max |-> 0]
        ELSE Wide]

\* night maximum 0
DayOnlyCounts ==
    [label \in ShiftLabels |->
        IF label = "nikkin" THEN Wide ELSE [min |-> 0, max |-> 0]]

\* minimum above maximum on the day label
CrossedCounts ==
    [label \in ShiftLabels |->
        IF label = "nikkin" THEN [min |-> 2, max |-> 1]
        ELSE WideCounts[label]]

StaffWith(name, holiday_override, shift_counts, constraints) ==
    [name |-> name, holiday_override |-> holiday_override,
     shift_counts |-> shift_counts, constraints |-> constraints,
     is_global_rule |-> FALSE]

\* a staff member who declares no constraint
Staff(name, holiday_override, shift_counts) ==
    StaffWith(name, holiday_override, shift_counts, << >>)

StaffConstraint(type, category, sub_category, count, target) ==
    [type |-> type, category |-> category, sub_category |-> sub_category,
     count |-> count, target |-> target]

Rule(holiday_count, consecutive_work_limit, night_staff, weekday_staff2, sunday_staff2) ==
    [holiday_count |-> holiday_count,
     consecutive_work_limit |-> consecutive_work_limit,
     early_staff |-> 0, late_staff |-> 0, night_staff |-> night_staff,
     weekday_staff2 |-> weekday_staff2, sunday_staff2 |-> sunday_staff2,
     preference_constraints |-> << >>]

RuleConstraint(type, category, sub_category, count, target, times) ==
    [type |-> type, category |-> category, sub_category |-> sub_category,
     count |-> count, target |-> target, times |-> times]

Entry(staff_name, day, shift_type) ==
    [staff_name |-> staff_name, day |-> day, shift_type |-> shift_type]

\* one night a day, nobody on days
RuleNight == Rule(1, DaysInMonth, 1, 0, 0)

\* 0.5 on weekdays, 1 on Sundays
RuleDay == Rule(1, DaysInMonth - 2, 0, 1, 2)

RuleDayLong == Rule(1, DaysInMonth, 0, 1, 2)

\* 1 on every day: one more cell than a single member with a rest can fill
RuleFull == Rule(1, DaysInMonth - 2, 0, 2, 2)

Trio == << Staff("A", None, WideCounts), Staff("B", None, WideCounts),
           Staff("C", 2, WideCounts) >>

Solo == << Staff("A", None, WideCounts) >>

SoloZero == << Staff("A", 0, WideCounts) >>

SoloDayOnly == << Staff("A", None, DayOnlyCounts) >>

SoloCrossed == << Staff("A", None, CrossedCounts) >>

Request(staff_data_list, rule_data, entries) ==
    [staff_data_list |-> staff_data_list, rule_data |-> rule_data,
     entries |-> entries]

TrioRequest == Request(Trio, RuleNight, {})

\* mandatory: runs of exactly two rests liked, runs of exactly two rests
\* disliked
TornHolidays ==
    << StaffConstraint("mandatory", "holiday", "like", "nirenkyu", "exactly"),
       StaffConstraint("mandatory", "holiday", "dislike", "nirenkyu",
                       "exactly") >>

\* A and B each declare the two constraints, C declares none
TornTrio ==
    << StaffWith("A", None, WideCounts, TornHolidays),
       StaffWith("B", None, WideCounts, TornHolidays),
       Staff("C", 2, WideCounts) >>

\* requests that declare constraints: the pre-analyzer reports all of them
TornRequests ==
    {Request(TornTrio, RuleNight, {}),
     Request(<< StaffWith("A", None, CrossedCounts, TornHolidays) >>,
             RuleDay, {})}

\* a night-in of A on day 1 with a rest, not a night-out, on day 2
NightBreakRequest ==
    Request(Trio, RuleNight, {Entry("A", 1, "nin"), Entry("A", 2, "rest")})

\* requests with one staff member
SoloRequests ==
    { Request(Solo, RuleDay, {}),
      Request(SoloZero, RuleDayLong, {}),
      Request(SoloDayOnly, RuleDay, {}),
      Request(Solo, RuleFull, {}),
      Request(SoloCrossed, RuleDay, {}),
      Request(Solo, RuleDay, {Entry("A", 1, "star")}),
      Request(Solo, RuleDay, {Entry("A", 2, "rest")}),
      Request(Solo, RuleDay, {Entry("A", 1, "under")}),
      Request(Solo, RuleDay, {Entry("A", DaysInMonth + 1, "rest")}) }

EmptyRequest == Request(<< >>, RuleDay, {})

\* for everybody, mandatory: no day shift on the day after a day shift
RuleDayApart ==
    [RuleDayLong EXCEPT !.preference_constraints =
        << RuleConstraint("mandatory", "interval", "dislike", "nikkin", 1,
                          "all") >>]

\* A falls under the rules for everybody, B is flagged as excluded
DuoApart ==
    << Staff("A", None, WideCounts),
       [Staff("B", None, WideCounts) EXCEPT !.is_global_rule = TRUE] >>

IntervalRequest == Request(Solo, RuleDayApart, {})

\* at least three day shifts
ApartCounts == [WideCounts EXCEPT !["nikkin"] = [min |-> 3, max |-> 4]]

\* mandatory for A: no day shift on the day after a day shift, with at least
\* three day shifts in the month; one day shift on every weekday
TightRequest ==
    Request(<< StaffWith("A", None, ApartCounts,
                         << StaffConstraint("mandatory", "interval",
                                            "dislike", "nikkin", 1) >>) >>,
            Rule(1, DaysInMonth, 0, 2, 0), {})

DuoIntervalRequest == Request(DuoApart, RuleDayApart, {})

\* one staff member A who declares the constraints
Declaring(constraints) == << StaffWith("A", None, WideCounts, constraints) >>

\* 必須 連続休暇 嫌悪 単休 丁度: no single rest
NoSingleRest ==
    StaffConstraint("mandatory", "holiday", "dislike", "tankyu", "exactly")

\* 必須 連続休暇 愛好 二連休 丁度: the rests come in pairs
RestInPairs ==
    StaffConstraint("mandatory", "holiday", "like", "nirenkyu", "exactly")

\* 必須 連休保証 二連休 1回まで: at least one run of two rests
OnePairOfRests ==
    StaffConstraint("mandatory", "guarantee", "nirenkyu", "", 1)

\* 必須 曜日希望 嫌悪 全て 土／日 with the given times
WeekendWish(times) ==
    RuleConstraint("mandatory", "weekday", "dislike", "all", "satsun", times)

\* 必須 連続シフト 夜勤 二 with the given target
NightRun(target) ==
    [type |-> "mandatory", category |-> "run", sub_category |-> "",
     count |-> "yakin", final |-> "ni", target |-> target, times |-> ""]

\* three staff members, B outside the loop of the global encoders
NightTrio ==
    << Staff("A", None, WideCounts),
       [Staff("B", None, WideCounts) EXCEPT !.is_global_rule = TRUE],
       Staff("C", None, WideCounts) >>

\* one night-in and one night-out a day, 0.5 day shifts on weekdays
RuleNightRun(target) ==
    [Rule(1, DaysInMonth, 1, 1, 0)
        EXCEPT !.preference_constraints = << NightRun(target) >>]

\* the three staff members under a work limit of two days, one ／ and one × a
\* day
TrioShortRequest == Request(Trio, Rule(1, 2, 1, 0, 0), {})

\* k nights exactly
NightCounts(k) == [WideCounts EXCEPT !["yakin"] = [min |-> k, max |-> k]]

\* A and B with one night each, C outside the global rules
PairTrio ==
    << Staff("A", 2, NightCounts(1)), Staff("B", None, NightCounts(1)),
       [Staff("C", None, WideCounts) EXCEPT !.is_global_rule = TRUE] >>

\* 必須 ペア重複 一 以上 on the shift named by count: no day shared
PairOverlap(count) ==
    [type |-> "mandatory", category |-> "pair_overlap", sub_category |-> "",
     count |-> count, final |-> "ichi", target |-> "at_least", times |-> ""]

\* the night request without hope entries, and a request for two day shifts a
\* day whose hope entries give A and B the first day
PairRequests ==
    { Request(PairTrio,
              [RuleNight EXCEPT
                  !.preference_constraints = << PairOverlap("yakin") >>],
              {}),
      Request(<< Staff("A", None, WideCounts), Staff("B", None, WideCounts) >>,
              [Rule(0, DaysInMonth, 0, 4, 4) EXCEPT
                  !.preference_constraints = << PairOverlap("day") >>],
              {Entry("A", 1, "day"), Entry("B", 1, "day")}) }

\* requests whose staff or rule declare constraints, sent with the default
\* list
DeclaredRequests ==
    { Request(Declaring(<< NoSingleRest >>), RuleDayLong, {}) }
    \cup {Request(Declaring(<< RestInPairs >>),
                  Rule(holiday_count, DaysInMonth, 0, 1, 2), {}) :
              holiday_count \in 1 .. 3}
    \cup {Request(Declaring(<< OnePairOfRests >>),
                  Rule(3, DaysInMonth, 0, 1, 0), entries) :
              entries \in {{}, {Entry("A", 1, "rest"), Entry("A", 2, "rest")}}}
    \cup {Request(Declaring(<< WeekendWish(times) >>), RuleDayLong, {}) :
              times \in {"work", "nikkin"}}
    \cup {Request(NightTrio, RuleNightRun(target), {}) :
              target \in {"at_least", "exactly"}}

\* the encoders of the default list that add clauses for a request without
\* declared constraints
CoreConstraints ==
    { "add_one_shift_per_day", "add_required_staff",
      "add_monthly_holiday_limit", "add_consecutive_work_limit",
      "add_night_pattern", "add_work_count_limit",
      "add_star_shift_constraint", "add_under_shift_constraint" }

\* active_constraints of the debug requests: the default list, and the
\* default list with one or two encoders taken out
DebugLists ==
    {DEFAULT_CONSTRAINTS}
    \cup {DEFAULT_CONSTRAINTS \ {c} : c \in CoreConstraints}
    \cup {DEFAULT_CONSTRAINTS \ {"add_night_pattern", "add_required_staff"}}

Call(endpoint, req, active_constraints, turbo_mode, progress_callback) ==
    [endpoint |-> endpoint,
     staff_data_list |-> req.staff_data_list,
     rule_data |-> req.rule_data,
     entries |-> req.entries,
     active_constraints |-> active_constraints,
     turbo_mode |-> turbo_mode,
     progress_callback |-> progress_callback]

\* the endpoints that run the pre-analyzer before generate_shift
PreChecked(endpoint) == endpoint \in {"/generate-shift", "/generate-test"}

\* POST /generate-shift and GET /generate-test
GenerateCalls ==
    {Call(endpoint, req, NoList, TRUE, "None") :
        endpoint \in {"/generate-shift", "/generate-test"},
        req \in SoloRequests
                  \cup {TrioRequest, EmptyRequest, NightBreakRequest,
                        IntervalRequest, TightRequest}
                  \cup TornRequests \cup PairRequests}

\* POST /debug-generate-shift
DebugCalls ==
    {Call("/debug-generate-shift", req, ListOf(names), TRUE, "None") :
        req \in SoloRequests, names \in DebugLists}
    \cup {Call("/debug-generate-shift", req, ListOf(DEFAULT_CONSTRAINTS),
               TRUE, "None") :
              req \in {TrioRequest, EmptyRequest, TrioShortRequest}}
    \cup {Call("/debug-generate-shift", req, ListOf(DEFAULT_CONSTRAINTS),
               TRUE, "None") : req \in DeclaredRequests}
    \cup {Call("/debug-generate-shift", DuoIntervalRequest,
               ListOf(DEFAULT_CONSTRAINTS
                          \cup {"add_global_shift_interval_constraint"}),
               TRUE, "None")}

\* ShiftGenerator.generate_shift called by a host program in balanced mode;
\* the observer is absent, returns, or raises
LibraryCalls ==
    {Call("generate_shift", req, active_constraints, FALSE, cb) :
        req \in { EmptyRequest,
                  Request(Solo, RuleDay, {}),
                  Request(Solo, RuleFull, {}),
                  Request(Solo, RuleDay, {Entry("A", 1, "star")}),
                  Request(Solo, RuleDay, {Entry("A", DaysInMonth + 1, "rest")}) },
        active_constraints \in {NoList, ListOf({})},
        cb \in {"None", "returns", "raises"}}
    \cup {Call("generate_shift", TrioRequest, NoList, FALSE, "None")}

Calls == GenerateCalls \cup DebugCalls \cup LibraryCalls

-----------------------------------------------------------------------------
(* The driver and its callers *)

VARIABLES
    request,              \* the call: endpoint, entities, arguments
    pc,                   \* position of the caller and of generate_shift
    pre_check,            \* outcome of the pre-analyzer, "none" if not run
    constraints_to_apply, \* generate_shift's list, as a set of names
    solver_calls,         \* number of solver.Solve calls so far
    status,               \* status the solver reported, "NONE" before
    values,               \* solver.Value of every boolean after the solve
    returned,             \* what generate_shift returned
    response,             \* kind of the HTTP response
    child_pc,             \* position of solve_in_process in the child
    child_constraints,    \* the child's constraints_to_apply
    found,                \* incumbents the child's solve finds
    sent,                 \* progress messages the child has put
    progress_queue,       \* messages put and not yet taken by the parent
    result_queue,         \* result tuples put and not yet taken
    child_put,            \* every result tuple the child has put
    delivered,            \* messages handed to progress_callback
    result,               \* (result_type, result_value) of the parent
    notifications,        \* write_notification calls of the pre-analyzer
    dialogs,              \* QMessageBox dialogs of the pre-analyzer
    quoted,               \* status named by the no-solution message
    document,             \* the document written to the results collection
    body                  \* shifts of the endpoint's success response

vars == << request, pc, pre_check, constraints_to_apply, solver_calls,
           status, values, returned, response, child_pc, child_constraints,
           found, sent, progress_queue, result_queue, child_put, delivered,
           result, notifications, dialogs, quoted, document, body >>

output_vars == << quoted, document, body >>

notify_vars == << notifications, dialogs, output_vars >>

driver_vars == << constraints_to_apply, returned >>

solver_vars == << solver_calls, status, values >>

child_vars == << child_pc, child_constraints, found, sent, progress_queue,
                 result_queue, child_put >>

Pending == [kind |-> "pending", entries |-> {}]

ReturnNone == [kind |-> "None", entries |-> {}]

\* an exception left generate_shift
Raised == [kind |-> "raised", entries |-> {}]

ShiftDataOf(entries) == [kind |-> "ShiftData", entries |-> entries]

\* mapping.SHIFT_TYPES.keys(): the order in which the entries of one cell
\* are read off the solver
SHIFT_TYPES_keys ==
    << "early", "day", "late", "nin", "nout", "rest", "leave", "star",
       "under" >>

\* the value a cell of the array holds after the assignments of these codes
\* in the order of the entries: the last one, '' when there is none
LastAssigned(codes) ==
    IF codes = {} THEN ""
    ELSE SHIFT_TYPES_keys[CHOOSE k \in DOMAIN SHIFT_TYPES_keys :
             /\ SHIFT_TYPES_keys[k] \in codes
             /\ \A l \in DOMAIN SHIFT_TYPES_keys :
                    SHIFT_TYPES_keys[l] \in codes => l <= k]

\* variant of ShiftsDict: the array is indexed by entry.day, whatever back is
ShiftsDictByDay(entries, length, back) ==
    [name \in {e.staff_name : e \in entries} |->
        [p \in 1 .. length |->
            LastAssigned({e.shift_type : e \in {f \in entries :
                             /\ f.staff_name = name
                             /\ f.day = p - 1}})]]

\* shifts_dict: [''] * length for every staff member with an entry, then
\* shifts_dict[entry.staff_name][entry.day - back] = entry.shift_type; the
\* array index k is the position k + 1 of the sequence
ShiftsDict(entries, length, back) ==
    [name \in {e.staff_name : e \in entries} |->
        [p \in 1 .. length |->
            LastAssigned({e.shift_type : e \in {f \in entries :
                             /\ f.staff_name = name
                             /\ f.day - back = p - 1}})]]

DocumentDays == 31

EditDays == 32

NoDocument == [status |-> "none"]

NoBody == [status |-> "none"]

\* write_result_to_firestore(solution, input_data): new_result
write_result_to_firestore(solution) ==
    [status |-> "success",
     shifts |-> ShiftsDict(solution.entries, DocumentDays, 1)]

\* the number of positional arguments write_result_to_firestore takes
write_result_to_firestore_takes(arguments) == arguments = 2

\* the number of arguments the endpoint passes to write_result_to_firestore
WriteArguments(endpoint) == IF endpoint = "/generate-shift" THEN 3 ELSE 2

\* the shifts of the endpoint's success response
ResponseShifts(endpoint, solution) ==
    [status |-> "success",
     shifts |-> IF endpoint = "/generate-shift"
                THEN ShiftsDict(solution.entries, EditDays, 0)
                ELSE ShiftsDict(solution.entries, DocumentDays, 1)]

ResultTuple(type, entries, text) ==
    [type |-> type, entries |-> entries, text |-> text]

NoResult == ResultTuple("None", {}, "")

SolutionMessage(n) == [kind |-> "solution", index |-> n]

ErrorMessage == [kind |-> "error", index |-> 0]

\* variant of StatusOk: every status but INFEASIBLE counts as solved
StatusNotInfeasible(st) == st # "INFEASIBLE"

\* status in (cp_model.OPTIMAL, cp_model.FEASIBLE)
StatusOk(st) == st \in {"OPTIMAL", "FEASIBLE"}

\* what solver.Value reads when the solve ended without a solution: the
\* booleans fixed by the hope entries, 0 elsewhere
Unsolved(req) ==
    [i \in StaffIdx(req) |-> [d \in Days |-> CellPinned(req, i, d)]]

\* the ways solver.Solve can end on the assembled model
SolveOutcomes(req, cons) ==
    LET sols == Solutions(req, cons) IN
    {[status |-> st, values |-> x] :
        st \in {"OPTIMAL", "FEASIBLE"}, x \in sols}
    \cup {[status |-> "UNKNOWN", values |-> Unsolved(req)]}
    \cup (IF sols = {}
          THEN {[status |-> "INFEASIBLE", values |-> Unsolved(req)]}
          ELSE {})

\* the entries read off the solver: one per boolean that is 1
Entries(x, req) ==
    {Entry(req.staff_data_list[t[1]].name, t[2] + 1, t[3]) :
        t \in {u \in StaffIdx(req) \X Days \X SHIFT_TYPES :
                  u[3] \in x[u[1]][u[2]]}}

\* generate_shift: DEFAULT_CONSTRAINTS if active_constraints is None
ConstraintsToApply(active_constraints) ==
    IF active_constraints.is_none
    THEN DEFAULT_CONSTRAINTS
    ELSE active_constraints.names

\* solve_in_process: active_constraints or self.DEFAULT_CONSTRAINTS
ChildConstraintsToApply(names) ==
    IF names = {} THEN DEFAULT_CONSTRAINTS ELSE names

\* progress_callback(message) in an except branch or an error branch
ReportError(after) ==
    CASE request.progress_callback = "None" ->
             /\ returned' = after
             /\ UNCHANGED delivered
      [] request.progress_callback = "returns" ->
             /\ returned' = after
             /\ delivered' = Append(delivered, ErrorMessage)
      [] request.progress_callback = "raises" ->
             /\ returned' = Raised
             /\ UNCHANGED delivered

Init ==
    /\ request \in Calls
    /\ pc = "received"
    /\ pre_check = "none"
    /\ constraints_to_apply = {}
    /\ solver_calls = 0
    /\ status = "NONE"
    /\ values = << >>
    /\ returned = Pending
    /\ response = "none"
    /\ child_pc = "none"
    /\ child_constraints = {}
    /\ found = 0
    /\ sent = 0
    /\ progress_queue = << >>
    /\ result_queue = << >>
    /\ child_put = << >>
    /\ delivered = << >>
    /\ result = NoResult
    /\ notifications = << >>
    /\ dialogs = 0
    /\ quoted = "NONE"
    /\ document = NoDocument
    /\ body = NoBody

\* variant of Aborts: the endpoint goes on whatever the pre-analyzer says
NeverAborts(ok) == FALSE

\* if not pre_check.check_constraints(...): return {"status": "error", ...}
Aborts(ok) == ~ok

\* /generate-shift and /generate-test, up to the call of generate_shift.  An
\* exception of the pre-analyzer is caught by the endpoint's own except, which
\* answers with an error.
PreCheck ==
    /\ pc = "received"
    /\ PreChecked(request.endpoint)
    /\ \E remaining \in RemainingChecks(request) :
          LET run == PreAnalysis(request, remaining)
              ok == check_constraints(request, remaining)
          IN  /\ notifications' = run.notifications
              /\ dialogs' = run.dialogs
              /\ IF run.outcome = "raise"
                 THEN /\ pre_check' = "raised"
                      /\ pc' = "responded"
                      /\ response' = "error"
                 ELSE /\ pre_check' = IF ok THEN "passed" ELSE "violation"
                      /\ IF Aborts(ok)
                         THEN pc' = "responded" /\ response' = "error"
                         ELSE pc' = "driver" /\ UNCHANGED response
    /\ UNCHANGED << output_vars, request, driver_vars, solver_vars, child_vars,
                    delivered, result >>

\* POST /debug-generate-shift and the host's own call: generate_shift is
\* called without a pre-analysis
CallGenerateShift ==
    /\ pc = "received"
    /\ ~PreChecked(request.endpoint)
    /\ pc' = "driver"
    /\ UNCHANGED << notify_vars, request, pre_check, driver_vars, solver_vars, response,
                    child_vars, delivered, result >>

\* generate_shift up to the solver's configuration: the empty staff list,
\* the choice of the list, the encoders, the hope entries
Assemble ==
    /\ pc = "driver"
    /\ IF Len(request.staff_data_list) = 0
       THEN /\ returned' = ReturnNone
            /\ pc' = "returned"
            /\ UNCHANGED << constraints_to_apply, delivered >>
       ELSE /\ constraints_to_apply' =
                   ConstraintsToApply(request.active_constraints)
            /\ IF \E ent \in request.entries : ~EntryKeyOk(request, ent)
               THEN \* KeyError, caught by the except of generate_shift
                    /\ ReportError(ReturnNone)
                    /\ pc' = "returned"
               ELSE /\ pc' = "assembled"
                    /\ UNCHANGED << returned, delivered >>
    /\ UNCHANGED << notify_vars, request, pre_check, solver_vars, response, child_vars,
                    result >>

\* turbo mode: solver.Solve in the caller's thread
TurboSolve ==
    /\ pc = "assembled"
    /\ request.turbo_mode
    /\ \E o \in SolveOutcomes(request, constraints_to_apply) :
          /\ status' = o.status
          /\ values' = o.values
    /\ solver_calls' = solver_calls + 1
    /\ pc' = "solved"
    /\ UNCHANGED << notify_vars, request, pre_check, driver_vars, response, child_vars,
                    delivered, result >>

\* the common result handling: if entries_data: return
\* create_shift_data(entries_data); else the message that quotes
\* STATUS_MAP.get(cp_model.INFEASIBLE), and None
CommonResult(entries_data) ==
    IF entries_data # {}
    THEN returned' = ShiftDataOf(entries_data) /\ UNCHANGED quoted
    ELSE returned' = ReturnNone /\ quoted' = "INFEASIBLE"

\* turbo mode: entries_data from the solver, then the common result handling
TurboResult ==
    /\ pc = "solved"
    /\ LET entries_data == IF StatusOk(status)
                           THEN Entries(values, request) ELSE {}
       IN  CommonResult(entries_data)
    /\ pc' = "returned"
    /\ UNCHANGED << notifications, dialogs, document, body, request, pre_check, constraints_to_apply, solver_vars,
                    response, child_vars, delivered, result >>

\* the endpoint's answer to the return value of generate_shift
Respond ==
    /\ pc = "returned"
    /\ request.endpoint # "generate_shift"
    /\ IF returned.kind = "ShiftData"
       THEN IF write_result_to_firestore_takes(WriteArguments(request.endpoint))
            THEN /\ document' = write_result_to_firestore(returned)
                 /\ body' = ResponseShifts(request.endpoint, returned)
                 /\ response' = "roster"
                 /\ UNCHANGED quoted
            ELSE /\ response' = "error"
                 /\ UNCHANGED output_vars
       ELSE /\ quoted' = "INFEASIBLE"
            /\ response' = "warning"
            /\ UNCHANGED << document, body >>
    /\ pc' = "responded"
    /\ UNCHANGED << notifications, dialogs, request, pre_check, driver_vars, solver_vars, child_vars,
                    delivered, result >>

-----------------------------------------------------------------------------
(* Balanced mode: the child process and the parent's poll *)

\* solver_process.start(), poll_timer.start(), event_loop.exec()
StartSolverProcess ==
    /\ pc = "assembled"
    /\ ~request.turbo_mode
    /\ child_pc' = "started"
    /\ pc' = "polling"
    /\ UNCHANGED << notify_vars, request, pre_check, driver_vars, solver_vars, response,
                    child_constraints, found, sent, progress_queue,
                    result_queue, child_put, delivered, result >>

\* solve_in_process up to the objective
ChildAssemble ==
    /\ child_pc = "started"
    /\ child_constraints' = ChildConstraintsToApply(constraints_to_apply)
    /\ child_pc' = "assembled"
    /\ UNCHANGED << notify_vars, request, pc, pre_check, driver_vars, solver_vars,
                    response, found, sent, progress_queue, result_queue,
                    child_put, delivered, result >>

\* solver.Solve(model, solution_printer) starts; found is the number of
\* incumbents the search is going to stream
ChildSolve ==
    /\ child_pc = "assembled"
    /\ found' \in (IF Solutions(request, child_constraints) = {}
                   THEN {0} ELSE 0 .. MaxSolutions)
    /\ solver_calls' = solver_calls + 1
    /\ child_pc' = "solving"
    /\ UNCHANGED << notify_vars, request, pc, pre_check, driver_vars, status, values,
                    response, child_constraints, sent, progress_queue,
                    result_queue, child_put, delivered, result >>

\* on_solution_callback: progress_queue.put(message)
ChildProgress ==
    /\ child_pc = "solving"
    /\ sent < found
    /\ sent' = sent + 1
    /\ progress_queue' = Append(progress_queue, SolutionMessage(sent + 1))
    /\ UNCHANGED << notify_vars, request, pc, pre_check, driver_vars, solver_vars,
                    response, child_pc, child_constraints, found,
                    result_queue, child_put, delivered, result >>

\* the tuple solve_in_process puts for the status the solve returned
ChildResult(st, x) ==
    IF StatusOk(st)
    THEN ResultTuple("success", Entries(x, request), "")
    ELSE ResultTuple("status", {}, st)

\* solver.Solve returns and the child puts its result
ChildSolved ==
    /\ child_pc = "solving"
    /\ sent = found
    /\ \E o \in SolveOutcomes(request, child_constraints) :
          /\ o.status \in {"OPTIMAL", "FEASIBLE"} <=> found > 0
          /\ status' = o.status
          /\ values' = o.values
          /\ result_queue' =
                 Append(result_queue, ChildResult(o.status, o.values))
          /\ child_put' = Append(child_put, ChildResult(o.status, o.values))
    /\ child_pc' = "put"
    /\ UNCHANGED << notify_vars, request, pc, pre_check, driver_vars, solver_calls,
                    response, child_constraints, found, sent, progress_queue,
                    delivered, result >>

\* an exception inside the try of solve_in_process:
\* result_queue.put(('error', str(e)))
ChildRaise ==
    /\ child_pc \in {"started", "assembled", "solving"}
    /\ result_queue' = Append(result_queue, ResultTuple("error", {}, "child"))
    /\ child_put' = Append(child_put, ResultTuple("error", {}, "child"))
    /\ child_pc' = "put"
    /\ UNCHANGED << notify_vars, request, pc, pre_check, driver_vars, solver_vars,
                    response, child_constraints, found, sent, progress_queue,
                    delivered, result >>

\* the child process is terminated before it puts a result
ChildKilled ==
    /\ child_pc \in {"started", "assembled", "solving"}
    /\ child_pc' = "exited"
    /\ UNCHANGED << notify_vars, request, pc, pre_check, driver_vars, solver_vars,
                    response, child_constraints, found, sent, progress_queue,
                    result_queue, child_put, delivered, result >>

\* the entries of the result tuples put on the queue and not yet read
PipeLoad(queue) ==
    IF queue = << >> THEN 0 ELSE Cardinality(Head(queue).entries)

\* solve_in_process returns and the process ends.  Queue.put hands the tuple
\* to the queue's feeder thread, and the exit of the process joins that
\* thread: it ends once the tuple is written to the pipe, which holds
\* PipeCapacity entries unread.
ChildExit ==
    /\ child_pc = "put"
    /\ PipeLoad(result_queue) <= PipeCapacity
    /\ child_pc' = "exited"
    /\ UNCHANGED << notify_vars, request, pc, pre_check, driver_vars, solver_vars,
                    response, child_constraints, found, sent, progress_queue,
                    result_queue, child_put, delivered, result >>

\* variant of DrainProgress: the messages of one poll handed over newest first
DrainNewestFirst(seen, queue) ==
    seen \o [k \in 1 .. Len(queue) |-> queue[Len(queue) + 1 - k]]

\* while True: message = progress_queue.get_nowait(); progress_callback(message)
\* the observer has seen the messages of seen, and sees those of queue next
DrainProgress(seen, queue) == seen \o queue

\* poll_subprocess, the loop over progress_queue.get_nowait()
PollProgress ==
    /\ pc = "polling"
    /\ IF progress_queue = << >> \/ request.progress_callback = "None"
       THEN /\ progress_queue' = << >>
            /\ pc' = "polled"
            /\ UNCHANGED delivered
       ELSE IF request.progress_callback = "returns"
       THEN /\ delivered' = DrainProgress(delivered, progress_queue)
            /\ progress_queue' = << >>
            /\ pc' = "polled"
       ELSE \* progress_callback raises on the first message
            /\ progress_queue' = Tail(progress_queue)
            /\ pc' = "except"
            /\ UNCHANGED delivered
    /\ UNCHANGED << notify_vars, request, pre_check, driver_vars, solver_vars, response,
                    child_pc, child_constraints, found, sent, result_queue,
                    child_put, result >>

\* variant of GetResult: the queue is taken for empty
GetResultEmpty(queue) == ResultTuple("error", {}, "unexpected end")

\* result_queue.get_nowait() once the child is seen dead
GetResult(queue) ==
    IF queue # << >>
    THEN Head(queue)
    ELSE ResultTuple("error", {}, "unexpected end")

\* poll_subprocess, the check of solver_process.is_alive()
PollAlive ==
    /\ pc = "polled"
    /\ IF child_pc # "exited"
       THEN /\ pc' = "polling"
            /\ UNCHANGED << result, result_queue >>
       ELSE /\ result' = GetResult(result_queue)
            /\ result_queue' = IF result_queue # << >>
                               THEN Tail(result_queue) ELSE << >>
            /\ pc' = "joined"
    /\ UNCHANGED << notify_vars, request, pre_check, driver_vars, solver_vars, response,
                    child_pc, child_constraints, found, sent, progress_queue,
                    child_put, delivered >>

\* poll_subprocess, the except branch: join the child, then an error result
PollExcept ==
    /\ pc = "except"
    /\ child_pc = "exited"
    /\ result' = ResultTuple("error", {}, "callback")
    /\ pc' = "joined"
    /\ UNCHANGED << notify_vars, request, pre_check, driver_vars, solver_vars, response,
                    child_vars, delivered >>

\* generate_shift after event_loop.exec(): the dispatch on result_type and
\* the common result handling
BalancedResult ==
    /\ pc = "joined"
    /\ IF result.type = "error"
       THEN ReportError(ReturnNone) /\ UNCHANGED quoted
       ELSE /\ CommonResult(IF result.type = "success"
                            THEN result.entries ELSE {})
            /\ UNCHANGED delivered
    /\ pc' = "returned"
    /\ UNCHANGED << notifications, dialogs, document, body, request, pre_check, constraints_to_apply, solver_vars,
                    response, child_vars, result >>

Next ==
    \/ PreCheck
    \/ CallGenerateShift
    \/ Assemble
    \/ TurboSolve
    \/ TurboResult
    \/ Respond
    \/ StartSolverProcess
    \/ ChildAssemble
    \/ ChildSolve
    \/ ChildProgress
    \/ ChildSolved
    \/ ChildRaise
    \/ ChildKilled
    \/ ChildExit
    \/ PollProgress
    \/ PollAlive
    \/ PollExcept
    \/ BalancedResult

Spec == Init /\ [][Next]_vars

-----------------------------------------------------------------------------
(* Properties of the returned roster *)

RosterReturned == returned.kind = "ShiftData"

\* codes the returned roster holds for the staff member at i on the day
\* (1-based, as in ShiftEntry.day)
RosterCodes(i, day) ==
    {e.shift_type : e \in
        {f \in returned.entries :
            /\ f.staff_name = request.staff_data_list[i].name
            /\ f.day = day}}

\* the list whose encoders built the model that was solved: the driver's own
\* in turbo mode, the child's in balanced mode
SolvedWith ==
    IF request.turbo_mode THEN constraints_to_apply ELSE child_constraints

MonthDays == 1 .. DaysInMonth

TotalAssignment ==
    \A i \in StaffIdx(request) : \A day \in MonthDays :
        Cardinality(RosterCodes(i, day)) = 1

\* C1 as stated: every roster a generation returns assigns exactly one shift
\* code to every (staff, day) cell of the month.
C1_TotalAssignment == RosterReturned => TotalAssignment

\* C1, amended: every roster returned by a generation whose applied
\* constraint list contains add_one_shift_per_day (the default list does)
\* assigns exactly one shift code to every (staff, day) cell of the month.
C1_TotalAssignmentUnderOneShift ==
    (RosterReturned /\ "add_one_shift_per_day" \in SolvedWith)
        => TotalAssignment

C1_Witness ==
    /\ RosterReturned
    /\ "add_one_shift_per_day" \in SolvedWith
    /\ request.endpoint = "/generate-shift"
    /\ NStaff(request) = 3

NightMacroPattern ==
    \A i \in StaffIdx(request) : \A d \in MonthDays :
        "nin" \in RosterCodes(i, d) =>
            /\ d + 1 <= DaysInMonth => "nout" \in RosterCodes(i, d + 1)
            /\ d + 2 <= DaysInMonth => "rest" \in RosterCodes(i, d + 2)

\* C3 as stated: in every returned roster a night-in on day d is followed by
\* a night-out on day d+1 and a rest on day d+2, where those days are in the
\* month.
C3_NightMacroPattern == RosterReturned => NightMacroPattern

\* C3, amended: the same, for every roster returned by a generation whose
\* applied constraint list contains add_night_pattern (the default list
\* does).
C3_NightMacroPatternUnderNightPattern ==
    (RosterReturned /\ "add_night_pattern" \in SolvedWith)
        => NightMacroPattern

C3_Witness ==
    /\ RosterReturned
    /\ "add_night_pattern" \in SolvedWith
    /\ \E i \in StaffIdx(request) : \E d \in 1 .. (DaysInMonth - 2) :
          /\ "nin" \in RosterCodes(i, d)
          /\ "nout" \in RosterCodes(i, d + 1)
          /\ "rest" \in RosterCodes(i, d + 2)

\* a night-out on day d+1 has a night-in on day d
NightOutAfterNightIn(i, d) ==
    "nout" \in RosterCodes(i, d + 1) => "nin" \in RosterCodes(i, d)

\* C4 as stated: in every returned roster, for every day d with d and d+1 in
\* the month, a night-out on day d+1 implies a night-in on day d.
C4_NightOutAfterNightIn ==
    RosterReturned =>
        \A i \in StaffIdx(request) : \A d \in 1 .. (DaysInMonth - 1) :
            NightOutAfterNightIn(i, d)

\* C4, amended: in every roster returned by a generation that applies
\* add_night_pattern, a night-out on day d+1 implies a night-in on day d for
\* every day d+1 before the last day of the month, and for the last day too
\* when add_required_staff is applied as well (the default list has both).
C4_NightOutAfterNightInUnderEncoders ==
    (RosterReturned /\ "add_night_pattern" \in SolvedWith) =>
        \A i \in StaffIdx(request) : \A d \in 1 .. (DaysInMonth - 1) :
            (d + 1 < DaysInMonth \/ "add_required_staff" \in SolvedWith)
                => NightOutAfterNightIn(i, d)

C4_Witness ==
    /\ RosterReturned
    /\ {"add_night_pattern", "add_required_staff"} \subseteq SolvedWith
    /\ \E i \in StaffIdx(request) :
          /\ "nout" \in RosterCodes(i, DaysInMonth)
          /\ "nin" \in RosterCodes(i, DaysInMonth - 1)

\* every window of consecutive_work_limit + 1 days holds a rest
RestInEveryWindow ==
    LET L == request.rule_data.consecutive_work_limit IN
    \A i \in StaffIdx(request) : \A start \in 1 .. (DaysInMonth - L) :
        \E d \in start .. (start + L) : "rest" \in RosterCodes(i, d)

\* C5 as stated: in every returned roster every window of L+1 consecutive
\* days of a staff member (L = consecutive_work_limit) contains a rest.
C5_RestInEveryWindow == RosterReturned => RestInEveryWindow

\* C5, amended: the same, for every roster returned by a generation whose
\* applied constraint list contains add_consecutive_work_limit and
\* add_one_shift_per_day (the default list has both).
C5_RestInEveryWindowUnderEncoders ==
    ( /\ RosterReturned
      /\ {"add_consecutive_work_limit", "add_one_shift_per_day"}
             \subseteq SolvedWith )
        => RestInEveryWindow

C5_Witness ==
    /\ RosterReturned
    /\ {"add_consecutive_work_limit", "add_one_shift_per_day"}
           \subseteq SolvedWith
    /\ request.rule_data.consecutive_work_limit < DaysInMonth - 1
    /\ request.endpoint = "/generate-shift"

NoUnderCell == \A e \in returned.entries : e.shift_type # "under"

StarOnlyWherePinned ==
    \A e \in returned.entries : e.shift_type = "star" => e \in request.entries

\* C6 as stated: in every returned roster the unset code is assigned to no
\* cell, and the star code only to a cell a hope entry pins it on.
C6_NoForbiddenCells ==
    RosterReturned => (NoUnderCell /\ StarOnlyWherePinned)

\* C6, amended: a roster returned by a generation that applies
\* add_under_shift_constraint assigns the unset code to no cell, and one
\* returned by a generation that applies add_star_shift_constraint assigns
\* the star code only to a cell a hope entry pins it on (the default list has
\* both).
C6_NoForbiddenCellsUnderEncoders ==
    RosterReturned =>
        /\ "add_under_shift_constraint" \in SolvedWith => NoUnderCell
        /\ "add_star_shift_constraint" \in SolvedWith => StarOnlyWherePinned

C6_Witness ==
    /\ RosterReturned
    /\ {"add_under_shift_constraint", "add_star_shift_constraint"}
           \subseteq SolvedWith
    /\ \E e \in returned.entries : e.shift_type = "star"

\* rest days of the staff member at i in the returned roster
RestDays(i) == Cardinality({d \in MonthDays : "rest" \in RosterCodes(i, d)})

HolidayTotal ==
    \A i \in StaffIdx(request) :
        LET ho == request.staff_data_list[i].holiday_override IN
        RestDays(i) = IF ho # None THEN ho
                      ELSE request.rule_data.holiday_count

\* C7 as stated: in every returned roster each staff member has exactly
\* holiday_override rest days when the override is set, 0 included, and
\* exactly holiday_count rest days otherwise.
C7_HolidayTotal == RosterReturned => HolidayTotal

\* C7, amended: the same, for every roster returned by a generation whose
\* applied constraint list contains add_monthly_holiday_limit (the default
\* list does).
C7_HolidayTotalUnderHolidayLimit ==
    (RosterReturned /\ "add_monthly_holiday_limit" \in SolvedWith)
        => HolidayTotal

C7_Witness ==
    /\ RosterReturned
    /\ "add_monthly_holiday_limit" \in SolvedWith
    /\ \E i \in StaffIdx(request) :
          /\ request.staff_data_list[i].holiday_override = 0
          /\ RestDays(i) = 0

-----------------------------------------------------------------------------
(* Properties of the driver *)

\* one of the modelled pre-analyzer checks reports a violation on the input
ViolationOn(req) == PreAnalysis(req, TRUE).outcome = "violation"

\* C8 as stated: the solver is never invoked for an input on which a
\* pre-analyzer check reports a violation, on every path that starts a
\* generation.
C8_NoSolveOnViolation == solver_calls > 0 => ~ViolationOn(request)

\* C8, amended: on the /generate-shift and /generate-test paths the solver
\* is never invoked for an input on which a pre-analyzer check reports a
\* violation: the reported violation ends the request before generate_shift
\* is called.
C8_NoSolveOnViolationWhenChecked ==
    PreChecked(request.endpoint) =>
        /\ solver_calls > 0 =>
               (pre_check = "passed" /\ ~ViolationOn(request))
        /\ pre_check = "violation" =>
               (pc = "responded" /\ returned = Pending)

C8_Witness ==
    /\ PreChecked(request.endpoint)
    /\ pre_check = "violation"
    /\ ViolationOn(request)
    /\ Len(request.staff_data_list) > 0
    /\ response = "error"
    /\ solver_calls = 0

\* C9: generate_shift returns roster entries only when the solver reported
\* OPTIMAL or FEASIBLE, in turbo mode and in balanced mode; for any other
\* status it returns no roster.
C9_NoPartialAssignment ==
    /\ RosterReturned => status \in {"OPTIMAL", "FEASIBLE"}
    /\ (pc \in {"returned", "responded"}
           /\ status \notin {"OPTIMAL", "FEASIBLE"})
          => returned.kind # "ShiftData"

C9_Witness ==
    /\ RosterReturned
    /\ ~request.turbo_mode
    /\ status = "FEASIBLE"
    /\ child_pc = "exited"

\* the child has exited and the event loop of the parent has quit
ParentHasOutcome ==
    /\ ~request.turbo_mode
    /\ child_pc = "exited"
    /\ pc \in {"joined", "returned"}

-----------------------------------------------------------------------------
(* Properties of the progress channel *)

\* positions of delivered that hold a progress event of the solver
SolutionPositions ==
    {k \in DOMAIN delivered : delivered[k].kind = "solution"}

\* C11: in balanced mode the progress events handed to progress_callback are
\* in the order the child's solver produced them: their solution indices are
\* strictly increasing along the sequence of deliveries.
C11_ProgressInOrder ==
    ~request.turbo_mode =>
        \A k \in SolutionPositions : \A l \in SolutionPositions :
            k < l => delivered[k].index < delivered[l].index

C11_Witness ==
    /\ ~request.turbo_mode
    /\ request.progress_callback = "returns"
    /\ Cardinality(SolutionPositions) >= 2
    /\ pc = "returned"

-----------------------------------------------------------------------------
(* Properties of the error handling *)

\* C12: no exception escapes generate_shift during a generation: every fault
\* raised in assembly, solving or result extraction ends in a returned
\* outcome (a roster or None), never in an exception at the caller.
C12_NoExceptionEscapes == returned.kind # "raised"

\* C13: every violation a pre-analyzer check detects emits a notification
\* through write_notification before the check reports failure.
C13_ViolationNotified == pre_check = "violation" => notifications # << >>

CollectingChecks == {"check_holiday_constraints_conflict"}

NoSolution ==
    /\ pc \in {"returned", "responded"}
    /\ status \in {"INFEASIBLE", "UNKNOWN", "MODEL_INVALID"}

\* C15 as stated: when the solver ends without a solution, the message that
\* is emitted quotes the status the solver reported, and no output document
\* is produced.
C15_ActualStatusQuoted ==
    NoSolution => quoted = status /\ document = NoDocument

\* C16 as stated: whenever the generation of a /generate-shift request finds
\* a roster, the outcome of the request is success with the output record,
\* never an error or a warning.
C16_RosterMeansSuccess ==
    /\ pc = "responded"
    /\ request.endpoint = "/generate-shift"
    /\ StatusOk(status)
    /\ returned.kind = "ShiftData"
    => response = "roster" /\ document # NoDocument

\* the codes the roster gives the staff member on day d
CodesOn(roster, name, d) ==
    {e.shift_type : e \in {f \in roster.entries :
                               f.staff_name = name /\ f.day = d}}

\* the array holds a code of day d at index d - 1 (position d of the
\* sequence), '' where the roster has none, and '' from index DaysInMonth on
DayAtIndexBefore(shifts, roster) ==
    \A name \in DOMAIN shifts :
        \A p \in DOMAIN shifts[name] :
            IF p <= DaysInMonth /\ CodesOn(roster, name, p) # {}
            THEN shifts[name][p] \in CodesOn(roster, name, p)
            ELSE shifts[name][p] = ""

\* C17: in the output record of a successful generation, each staff member's
\* shifts array holds the code of day d at index d - 1 (day 1 at index 0),
\* and every index at or beyond days_in_month holds the empty string; the
\* same holds for the shifts of the success response.
C17_DayOneAtIndexZero ==
    /\ document # NoDocument => DayAtIndexBefore(document.shifts, returned)
    /\ body # NoBody => DayAtIndexBefore(body.shifts, returned)

\* a written document with a code on the first and on the last day of the
\* month of some staff member
C17_Witness ==
    /\ response = "roster"
    /\ document # NoDocument
    /\ \E name \in DOMAIN document.shifts :
          /\ document.shifts[name][1] # ""
          /\ document.shifts[name][DaysInMonth] # ""
          /\ document.shifts[name][DaysInMonth + 1] = ""
          /\ Len(document.shifts[name]) = DocumentDays

\* C18 as stated: in balanced mode the child process applies the same
\* encoder methods as the caller-thread pipeline does for the same
\* active-constraint list.
C18_ChildAppliesSameEncoders ==
    child_pc \notin {"none", "started"}
        => child_constraints = constraints_to_apply

MaximalRestRun(r, a, b) ==
    /\ \A d \in a .. b : "rest" \in r[d]
    /\ a = 0 \/ "rest" \notin r[a - 1]
    /\ b = DaysInMonth - 1 \/ "rest" \notin r[b + 1]

\* the first days of the maximal runs of exactly k rests
RestRunsOf(r, k) ==
    {a \in Days : a + k - 1 < DaysInMonth /\ MaximalRestRun(r, a, a + k - 1)}

\* generate_shift has returned a roster to a request of the one staff member
\* A who declares exactly this constraint, under the default list
ReturnedUnder(constraint) ==
    /\ returned.kind = "ShiftData"
    /\ StatusOk(status)
    /\ constraints_to_apply = DEFAULT_CONSTRAINTS
    /\ NStaff(request) = 1
    /\ request.staff_data_list[1].constraints = << constraint >>

\* C21 as stated: under a mandatory consecutive-holiday rule dislike, 丁度,
\* 単休, no returned roster of that staff member has an isolated rest, a
\* maximal run of exactly one rest bounded by a day without rest or by an
\* edge of the month.
C21_NoIsolatedRest ==
    ReturnedUnder(NoSingleRest) => RestRunsOf(values[1], 1) = {}

C23_GuaranteedRuns ==
    ReturnedUnder(OnePairOfRests) =>
        Cardinality(RestRunsOf(values[1], 2)) >= 1

\* the codes the times of a weekday wish stand for: 出勤 is any of ▲, 日, ▼
WishCodes(times) ==
    IF times = "work" THEN {"early", "day", "late"}
    ELSE {SHIFT_TYPE_MAPPING(times)}

\* C24 as stated: under a mandatory weekday-wish rule dislike on the
\* Saturday/Sunday pair, in every returned roster at most one day of each
\* targeted (Saturday, Sunday) pair has the specified code; for times = 出勤
\* at most one of the two days carries a code of ▲, 日, ▼.
C24_OneDayOfThePair ==
    \A times \in {"work", "nikkin"} :
        ReturnedUnder(WeekendWish(times)) =>
            \A sat_idx \in weekend_pairs :
                Cardinality({day \in {sat_idx, sat_idx + 1} :
                    values[1][day] \cap WishCodes(times) # {}}) <= 1

\* the days a .. b of the row carry codes of ／, ×, 公 only and day a is a ×:
\* a night cluster, or the part of one from a × on
InCluster(r, a, b) ==
    /\ "nout" \in r[a]
    /\ \A d \in a .. b : r[d] \subseteq {"nin", "nout", "rest"}

\* night_count = 1 + the number of ／ days
ClusterCount(r, a, b) == 1 + Cardinality({d \in a .. b : "nin" \in r[d]})

\* the solve of a debug call with the default list has answered a request
\* whose rule declares the night run constraint with the target
SolvedUnderNightRun(target) ==
    /\ pc = "solved"
    /\ constraints_to_apply = DEFAULT_CONSTRAINTS
    /\ request.rule_data.preference_constraints = << NightRun(target) >>

ClosesAt(r, n) ==
    \E a \in Days : \E b \in a .. (DaysInMonth - 2) :
        /\ InCluster(r, a, b)
        /\ ~(r[b + 1] \subseteq {"nin", "nout", "rest"})
        /\ \A c \in 0 .. (a - 1) : ~InCluster(r, c, b)
        /\ ClusterCount(r, a, b) = n

\* the request without the constraints its rule declares
WithoutRuleConstraints(req) ==
    [req EXCEPT !.rule_data.preference_constraints = << >>]

RowRestInEveryWindow(r, max_limit) ==
    \A start_day \in 0 .. (DaysInMonth - max_limit - 1) :
        \E day \in start_day .. (start_day + max_limit) : "rest" \in r[day]

\* C30 as stated: the consecutive-work limit excludes only rosters that have
\* some window of L+1 consecutive days without a 公: a roster the other
\* constraints of the default list admit, with a 公 in every such window of
\* every staff member, is admitted under the limit too, whatever code stands on
\* the last day of the month.
C30_OnlyRestlessWindowsExcluded ==
    (pc = "solved" /\ constraints_to_apply = DEFAULT_CONSTRAINTS) =>
        \A x \in Solutions(request, constraints_to_apply
                                        \ {"add_consecutive_work_limit"}) :
            (\A i \in StaffIdx(request) :
                 RowRestInEveryWindow(x[i],
                                   request.rule_data.consecutive_work_limit))
                => add_consecutive_work_limit(x, request)

\* staff members A and B with the same minimum and maximum k of nights, and
\* a rule whose mandatory pair-overlap constraint on night forbids k shared
\* nights or more (k = 1 in the month of DaysInMonth days)
NightPairCase ==
    /\ PreChecked(request.endpoint)
    /\ NStaff(request) >= 2
    /\ \A i \in {1, 2} :
          request.staff_data_list[i].shift_counts["yakin"]
              = [min |-> 1, max |-> 1]
    /\ request.rule_data.preference_constraints = << PairOverlap("yakin") >>

C28_NoProgressLost ==
    (/\ pc = "returned"
     /\ ~request.turbo_mode
     /\ request.progress_callback = "returns"
     /\ result.type = "success") =>
        Cardinality(SolutionPositions) = sent

\* the child has put a result that does not fit the pipe and waits at its
\* exit for the parent to read it
ChildWaitsForDrain ==
    child_pc = "put" /\ PipeLoad(result_queue) > PipeCapacity

\* the parent polls, or joins in its except branch: it reads the result queue
\* only once the child is dead
ParentWaitsForExit == pc \in {"polling", "polled", "except"}

\* C27 as stated: in balanced mode generate_shift terminates for any size of
\* the result: there is no reachable state in which the child waits for the
\* result channel to be drained while the parent waits for the child to exit.
C27_NoMutualWait == ~(ChildWaitsForDrain /\ ParentWaitsForExit)

====
